---------------------------- MODULE Spec2Model ----------------------------
(***************************************************************************)
(* Model of the azru heating controller: the MPC controller service        *)
(* (app/main.py, app/services/mpc_service.py), the hysteresis controller   *)
(* (app/services/manual_controller.py), the digital-twin simulator         *)
(* (app/digital_twin/simulator.py, loader.py) and the batch loop           *)
(* (run_simulation.py).                                                    *)
(*                                                                         *)
(* Units.  Temperatures are tenths of a degree Celsius, powers are Watts,  *)
(* prices are 1e-4 EUR/kWh, instants and steps are seconds (whole hours),  *)
(* and a cost is Watt-hours * (1e-4 EUR/kWh), i.e. the code's cost_step    *)
(* multiplied by 1e7, so that the code's float products are exact integers *)
(* here.                                                                   *)
(***************************************************************************)
EXTENDS Integers, Sequences, FiniteSets, TLC

VARIABLES
    program,        \* which entry point is running: "service", "twin", "batch",
                    \* "unit", "mqtt"
    \* ---- app/main.py + MPCService (program "service"; the MPCService of "batch")
    is_auto_mode,   \* MPCService.is_auto_mode
    current_time,   \* MPCService.current_time (seconds)
    mode_req,       \* history: the argument of the last set_auto_mode call
    override,       \* history: an operator's valve command was published and
                    \* set_auto_mode(True) has not been called since
    call,           \* per caller of optimize: its position and locals
    command_topic,  \* payloads published on COMMAND_TOPIC, not yet forwarded
    ret,            \* history: the last return of optimize to a caller
    n_ops,          \* requests, jobs and clock messages handled so far
    \* ---- Simulator (program "twin")
    scenario,       \* ScenarioLoader.data
    sim_pc,         \* position of Simulator.run
    current_sim_time, sim_start, T_int, T_m, valve_pos, total_cost, running,
    listener,       \* state of the listen_for_commands task
    inbox,          \* messages delivered on the subscription, not yet processed
    published,      \* history: what the current tick has handed to client.publish
    ev,             \* the last step taken by the simulator or the batch loop
    \* ---- run_batch_simulation (program "batch")
    b_mode, b_time, b_end, b_T_int, b_T_m, b_valve_pos, b_total_cost, b_pc, b_action,
    \* ---- direct calls of the pure functions (program "unit")
    u_call, u_out,
    \* ---- MQTTService.start (program "mqtt")
    mq_pc,          \* position of MQTTService.start
    mq_msg,         \* the message the latest step took from client.messages
    mq_calls,       \* the callbacks awaited for that message, in order
    mq_losses,      \* connection losses and unexpected exceptions so far
    mq_waited,      \* history: seconds slept since the loop last left its try
    mq_cancelled    \* history: task.cancel() has been called

svc_vars  == <<is_auto_mode, current_time, mode_req, override, call, command_topic,
               ret, n_ops>>
twin_vars == <<sim_pc, current_sim_time, sim_start, T_int, T_m, valve_pos,
               total_cost, running, listener, inbox, published>>
batch_vars == <<b_mode, b_time, b_end, b_T_int, b_T_m, b_valve_pos, b_total_cost,
                b_pc, b_action>>
unit_vars == <<u_call, u_out>>
mqtt_vars == <<mq_pc, mq_msg, mq_calls, mq_losses, mq_waited, mq_cancelled>>
vars == <<program, scenario, ev, svc_vars, twin_vars, batch_vars, unit_vars,
          mqtt_vars>>

----------------------------------------------------------------------------
(* Bounds of the model *)

\* Ticks of the stepping loop before the configured duration has elapsed.
MaxTicks == 3
\* Payloads published on the command topic and not yet forwarded.
MaxQueue == 1
\* Messages delivered to the simulator's subscription and not yet processed.
MaxInbox == 1
\* Clock resyncs, mode switches and optimize calls of one run of the service.
MaxOps == 4

----------------------------------------------------------------------------
(* app/config.py *)

SIM_TIME_STEP == 3600
SIM_HEATER_MAX_POWER == 4500
SIM_INITIAL_TEMP == 190
T_MIN == 190
T_MAX == 240

\* SIM_ROOM_R in hundredths of K.m2/W, SIM_ROOM_C in J/K, AREA in m2.
SIM_ROOM_R == 88
SIM_ROOM_C == 11000000
AREA == 45

HourSeconds == 3600
DaySeconds == 24 * HourSeconds

----------------------------------------------------------------------------
(* app/digital_twin/loader.py *)

\* The scenario documents of the model.  A key that is absent from the JSON
\* document is absent from the record's "has" set.  EmptyScenario is what
\* _load_scenario returns when the file cannot be opened or parsed: {}.
\* duration_hours is 24 * duration_days (a JSON number, whole or not).
NoPrices == [has |-> {}, hp |-> 0, hc |-> 0, peak_hours |-> <<>>]

EmptyScenario ==
    [has |-> {}, weather |-> <<>>, prices |-> NoPrices, initial_temp |-> 0,
     duration_hours |-> 0]

OneDayScenario ==
    [has |-> {"weather", "initial_temp", "duration_hours"},
     weather |-> << [t_min |-> -20, t_max |-> 60, nebulosity |-> 80] >>,
     prices |-> NoPrices, initial_temp |-> 185, duration_hours |-> MaxTicks]

TwoDayScenario ==
    [has |-> {"weather", "prices", "duration_hours"},
     weather |-> << [t_min |-> 0, t_max |-> 100, nebulosity |-> 20],
                    [t_min |-> -50, t_max |-> 10, nebulosity |-> 100] >>,
     prices |-> [has |-> {"hp", "hc", "peak_hours"}, hp |-> 3000, hc |-> 1000,
                 peak_hours |-> << <<7, 9>>, <<18, 20>> >>],
     initial_temp |-> 0, duration_hours |-> MaxTicks]

Scenarios == {EmptyScenario, OneDayScenario, TwoDayScenario}

\* A document whose peak_hours has an interval that wraps around midnight, an
\* empty interval, two overlapping intervals and one that ends at 24, and
\* that gives no "hp" price.
PeakHoursScenario ==
    [has |-> {"weather", "prices"},
     weather |-> << [t_min |-> 0, t_max |-> 100, nebulosity |-> 20] >>,
     prices |-> [has |-> {"hc", "peak_hours"}, hp |-> 0, hc |-> 1500,
                 peak_hours |-> << <<22, 6>>, <<12, 12>>, <<9, 11>>,
                                   <<10, 13>>, <<23, 24>> >>],
     initial_temp |-> 0, duration_hours |-> 0]

\* _load_scenario: the parsed document, or {} on any exception.
LoadScenario(doc, readable) == IF readable THEN doc ELSE EmptyScenario

\* dict.get(key, default)
Get(data, key, default) == IF key \in data.has THEN data[key] ELSE default

\* 1000 * cos(pi * k / 12) for k = 0..23, rounded to the nearest integer.
Cos1000 ==
    << 1000, 966, 866, 707, 500, 259, 0, -259, -500, -707, -866, -966,
       -1000, -966, -866, -707, -500, -259, 0, 259, 500, 707, 866, 966 >>

\* hour = t.hour + t.minute / 60.0, in minutes of the day.
HourOf(t) == (t % DaySeconds) \div 60

\* The result of a call: exc = "none" and the returned dict, or the exception
\* it raised.
Returned(temperature, nebulosity) ==
    [exc |-> "none", temperature |-> temperature, nebulosity |-> nebulosity]
Raised(exc) == [exc |-> exc, temperature |-> 0, nebulosity |-> 0]

\* A plausible slip: clamp to the last scenario day instead of looping.
get_weather_at_clamped(data, day_index, hour) ==
    LET days == Get(data, "weather", <<>>) IN
    IF Len(days) = 0 THEN Raised("ZeroDivisionError")
    ELSE LET i == IF day_index >= Len(days) THEN Len(days) - 1 ELSE day_index % Len(days)
             day_data == days[i + 1]
         IN Returned(1000 * (day_data.t_max + day_data.t_min)
                       - (day_data.t_max - day_data.t_min)
                           * Cos1000[((hour \div 60 - 4) % 24) + 1],
                     day_data.nebulosity)

\* get_weather_at(day_index, hour): hour in minutes of the day, on the hour.
\* temperature is in 1/2000 of a tenth of a degree:
\*   2000 * (avg - amp * cos(pi * (hour - 4) / 12)).
\* With no scenario day, day_index % len(days) divides by zero.
get_weather_at(data, day_index, hour) ==
    LET days == Get(data, "weather", <<>>) IN
    IF Len(days) = 0 THEN Raised("ZeroDivisionError")
    ELSE LET day_data == days[(day_index % Len(days)) + 1]
         IN Returned(1000 * (day_data.t_max + day_data.t_min)
                       - (day_data.t_max - day_data.t_min)
                           * Cos1000[((hour \div 60 - 4) % 24) + 1],
                     day_data.nebulosity)

DefaultPeakHours == << <<6, 14>>, <<17, 21>> >>
DefaultHP == 2516
DefaultHC == 2068

\* A plausible slip: the end of an interval counts as peak.
get_price_at_closed(data, day_index, hour) ==
    LET prices == Get(data, "prices", NoPrices)
        hp_price == Get(prices, "hp", DefaultHP)
        hc_price == Get(prices, "hc", DefaultHC)
        peak_hours == Get(prices, "peak_hours", DefaultPeakHours)
        is_peak == \E i \in 1..Len(peak_hours) :
                      /\ peak_hours[i][1] * 60 <= hour
                      /\ hour <= peak_hours[i][2] * 60
    IN IF is_peak THEN [exc |-> "none", price |-> hp_price, tariff |-> "HP"]
       ELSE [exc |-> "none", price |-> hc_price, tariff |-> "HC"]

\* get_price_at(day_index, hour): peak price iff start <= hour < end for one
\* of the peak_hours intervals.
get_price_at(data, day_index, hour) ==
    LET prices == Get(data, "prices", NoPrices)
        hp_price == Get(prices, "hp", DefaultHP)
        hc_price == Get(prices, "hc", DefaultHC)
        peak_hours == Get(prices, "peak_hours", DefaultPeakHours)
        is_peak == \E i \in 1..Len(peak_hours) :
                      /\ peak_hours[i][1] * 60 <= hour
                      /\ hour < peak_hours[i][2] * 60
    IN IF is_peak THEN [exc |-> "none", price |-> hp_price, tariff |-> "HP"]
       ELSE [exc |-> "none", price |-> hc_price, tariff |-> "HC"]


----------------------------------------------------------------------------
(* MPCService.get_tempo_electricity_prices *)

\* self.horizon = int(24 * 3600 / self.dt), with self.dt = SIM_TIME_STEP
horizon == (24 * 3600) \div SIM_TIME_STEP

\* TARIFS, in 1e-4 EUR/kWh
TARIFS ==
    [Bleu |-> [HC |-> 1296, HP |-> 1609],
     Blanc |-> [HC |-> 1486, HP |-> 1894],
     Rouge |-> [HC |-> 1568, HP |-> 7562],
     Inconnu |-> [HC |-> 1500, HP |-> 2500]]

\* TARIFS.get(couleur_jour, TARIFS["Inconnu"])
TarifOf(couleur_jour) ==
    IF couleur_jour \in DOMAIN TARIFS THEN TARIFS[couleur_jour] ELSE TARIFS["Inconnu"]

\* res.json().get("libCouleur", "Inconnu") when status_code == 200, and the
\* initial "Inconnu" otherwise.
CouleurOf(answer) ==
    IF answer \in {"no key", "status 503"} THEN "Inconnu" ELSE answer

\* The try block: <<couleur_aujourdhui, couleur_demain>>.  An exception of
\* the first request skips the second one; an exception of the second one
\* leaves the first colour assigned.
TempoColours(today, tomorrow) ==
    IF today = "exception" THEN <<"Inconnu", "Inconnu">>
    ELSE IF tomorrow = "exception" THEN <<CouleurOf(today), "Inconnu">>
    ELSE <<CouleurOf(today), CouleurOf(tomorrow)>>

\* A plausible slip: 22h still counts as peak.
TempoIsHP_closed(t) ==
    LET hour == (t % DaySeconds) \div HourSeconds IN 6 <= hour /\ hour <= 22

\* is_hp = 6 <= current_step_time.hour < 22
TempoIsHP(t) ==
    LET hour == (t % DaySeconds) \div HourSeconds IN 6 <= hour /\ hour < 22

\* The loop over range(self.horizon), from current_step_time with n entries to
\* go: the entries it writes.
RECURSIVE TempoLoop(_, _, _, _)
TempoLoop(current_step_time, start_time, n, couleurs) ==
    IF n = 0 THEN <<>>
    ELSE LET couleur_jour ==
                 IF current_step_time \div DaySeconds = start_time \div DaySeconds
                 THEN couleurs[1] ELSE couleurs[2]
             tarif_jour == TarifOf(couleur_jour)
             price == IF TempoIsHP(current_step_time)
                      THEN tarif_jour.HP ELSE tarif_jour.HC
         IN <<price>> \o TempoLoop(current_step_time + SIM_TIME_STEP, start_time,
                                   n - 1, couleurs)

\* get_tempo_electricity_prices(start_time), start_time being None when
\* has_start is false; time_now is self.current_time at the call.
get_tempo_electricity_prices(has_start, start_time, time_now, today, tomorrow) ==
    LET start == IF has_start THEN start_time ELSE time_now
    IN [exc |-> "none",
        prices |-> TempoLoop(start, start, horizon, TempoColours(today, tomorrow))]

----------------------------------------------------------------------------
(* ControlAction: the value a controller's optimize returns *)

\* The dict {"valve_position": v, "planned_power": p}, with an "error" key
\* when has_error.
ControlAction(v, p) ==
    [kind |-> "action", valve_position |-> v, planned_power |-> p,
     has_error |-> FALSE, error |-> ""]

\* Python's None.
NoneValue ==
    [kind |-> "None", valve_position |-> 0, planned_power |-> 0,
     has_error |-> FALSE, error |-> ""]

\* str(e) of the exceptions the model raises inside optimize's try block.
\* str(Exception()) is the empty string.
ErrorMessages == {"", "@error: Solution Not Found"}

\* P_heat.NEWVAL of a successful solve: the MV is bounded by lb = 0 and
\* ub = SIM_HEATER_MAX_POWER.
SolverPowers == {0, 44, 1234, 1305, 2250, 4499, 4500}

----------------------------------------------------------------------------
(* app/services/manual_controller.py *)

ManualTarget == 200
ManualDelta == 5

\* A plausible slip: the dead band keeps heating.
ManualOptimize_deadband_on(target_temp, trigger_delta, current_temp) ==
    IF current_temp < target_temp - trigger_delta
    THEN ControlAction(100, SIM_HEATER_MAX_POWER)
    ELSE IF current_temp > target_temp + trigger_delta
    THEN ControlAction(0, 0)
    ELSE ControlAction(100, SIM_HEATER_MAX_POWER \div 2)

\* A plausible slip: the lower threshold itself switches the heating on.
ManualOptimize_inclusive(target_temp, trigger_delta, current_temp) ==
    IF current_temp <= target_temp - trigger_delta
    THEN ControlAction(100, SIM_HEATER_MAX_POWER)
    ELSE ControlAction(0, 0)

\* ManualController.optimize(current_temp)
ManualOptimize(target_temp, trigger_delta, current_temp) ==
    IF current_temp < target_temp - trigger_delta
    THEN ControlAction(100, SIM_HEATER_MAX_POWER)
    ELSE IF current_temp > target_temp + trigger_delta
    THEN ControlAction(0, 0)
    ELSE ControlAction(0, 0)

----------------------------------------------------------------------------
(* app/models/thermal_model.py *)

\* ThermalModel.__init__: the R, C and area the model computes with.  The
\* constructor reads them as settings.R, settings.C and settings.AREA;
\* config.py names the first two SIM_ROOM_R and SIM_ROOM_C.
ThermalModelInit == [R |-> SIM_ROOM_R, C |-> SIM_ROOM_C, area |-> AREA]

\* A plausible slip: the step is added to the rate, not multiplied by it.
predict_next_temperature_plus(T_in, T_ext, Power, dt) ==
    LET self == ThermalModelInit
        loss == ((T_ext - T_in) * 1000) \div ((self.R * self.area) \div 10)
        gain == Power \div (self.C \div 1000000)
    IN T_in + ((loss + gain) + dt) \div 100

\* ThermalModel.predict_next_temperature(T_in, T_ext, Power, dt), on
\* temperatures in 1e-4 degree: dT_dt is the sum of (T_ext - T_in) / (R * area)
\* and Power / C, here in 1e-6 degree per second, and the result is
\* T_in + dT_dt * dt (cut to 1e-4 degree).
predict_next_temperature(T_in, T_ext, Power, dt) ==
    LET self == ThermalModelInit
        loss == ((T_ext - T_in) * 1000) \div ((self.R * self.area) \div 10)
        gain == Power \div (self.C \div 1000000)
    IN T_in + ((loss + gain) * dt) \div 100

----------------------------------------------------------------------------
(* app/services/mpc_service.py: the return values of MPCService.optimize *)

\* Watt values p for which the double (p / 4500.0) * 100 is just below the
\* integer 100 * p / 4500, so that int() yields one less.
TruncatesLow == {1305, 2565, 2610}

\* A plausible slip: a percentage that is not cut to the valve's range.
ValveOfPower_permille(optimal_power) ==
    (optimal_power * 1000) \div SIM_HEATER_MAX_POWER

\* int((optimal_power / SIM_HEATER_MAX_POWER) * 100): truncation towards
\* zero of the double product (optimal_power >= 0).
ValveOfPower(optimal_power) ==
    IF optimal_power \in TruncatesLow
    THEN (optimal_power * 100) \div SIM_HEATER_MAX_POWER - 1
    ELSE (optimal_power * 100) \div SIM_HEATER_MAX_POWER

\* Lines 170-179: the action of a successful solve.
OptimizeSuccess(optimal_power) ==
    ControlAction(ValveOfPower(optimal_power), optimal_power)

\* A plausible slip: the fail-safe keeps the heater at full power.
OptimizeFailSafe_full(msg) ==
    [kind |-> "action", valve_position |-> 100,
     planned_power |-> SIM_HEATER_MAX_POWER, has_error |-> TRUE, error |-> msg]

\* Lines 181-184: except Exception as e.
OptimizeFailSafe(msg) ==
    [kind |-> "action", valve_position |-> 0, planned_power |-> 0,
     has_error |-> TRUE, error |-> msg]

\* A timestamp text "<date>T<hh>:<mm>:<ss>" by its fields; form "text" is a
\* string of another layout.  Dates count days from the first scenario day.
IsoText(day, hour, minute, second) ==
    [form |-> "iso", day |-> day, hour |-> hour, minute |-> minute,
     second |-> second]

\* datetime.isoformat() of an instant.
IsoFormat(t) ==
    IsoText(t \div DaySeconds, (t % DaySeconds) \div HourSeconds,
            (t % HourSeconds) \div 60, t % 60)

\* datetime.fromisoformat(text): the instant of a text whose fields are in
\* range; ValueError otherwise.
fromisoformat(text) ==
    IF /\ text.form = "iso"
       /\ text.day >= 0
       /\ text.hour \in 0..23
       /\ text.minute \in 0..59
       /\ text.second \in 0..59
    THEN [exc |-> "none",
          instant |-> text.day * DaySeconds + text.hour * HourSeconds
                      + text.minute * 60 + text.second]
    ELSE [exc |-> "ValueError", instant |-> 0]

\* A plausible slip: a clock that only ever moves forward.
update_time_forward_only(self, iso_time) ==
    LET parsed == fromisoformat(iso_time) IN
    IF parsed.exc = "none" /\ parsed.instant > self.current_time
    THEN [exc |-> "none", self |-> [self EXCEPT !.current_time = parsed.instant]]
    ELSE [exc |-> "none", self |-> self]

\* update_time(iso_time) on the service self (its current_time and
\* is_auto_mode): the service after the call and the exception that leaves
\* the method.  Only ValueError is caught (and logged).
update_time(self, iso_time) ==
    LET parsed == fromisoformat(iso_time) IN
    IF parsed.exc = "none"
    THEN [exc |-> "none", self |-> [self EXCEPT !.current_time = parsed.instant]]
    ELSE IF parsed.exc = "ValueError"
         THEN [exc |-> "none", self |-> self]
         ELSE [exc |-> parsed.exc, self |-> self]

\* current_time after update_time(iso) on a service whose clock reads cur.
UpdateTime(cur, iso) ==
    update_time([current_time |-> cur, is_auto_mode |-> TRUE], iso).self.current_time

\* A plausible slip: the guard tests the wrong polarity.
OptimizeSkips_inverted(auto_mode) == auto_mode

\* Lines 110-112: optimize returns None at once when not in auto mode.
OptimizeSkips(auto_mode) == ~auto_mode

----------------------------------------------------------------------------
(* MQTT payloads *)

\* A payload on the wire.  fmt = "json" for a JSON object with the keys in
\* "keys", anything else for a payload json.loads rejects.  valve_type tells
\* what is under "valve_position": a JSON number, a string float() accepts
\* ("numeric string"), another string ("text"), true or false ("bool", with
\* valve_position 1 or 0) or null.  fmt = "json value" is valid JSON that is
\* no object (a number, a string, a list).
Payload(fmt, keys, valve_type, valve_position, error, source) ==
    [fmt |-> fmt, keys |-> keys, valve_type |-> valve_type,
     valve_position |-> valve_position, error |-> error, source |-> source]

\* json.dumps(result) of a ControlAction.
DumpAction(result) ==
    Payload("json",
            {"valve_position", "planned_power"}
                \cup (IF result.has_error THEN {"error"} ELSE {}),
            "number", result.valve_position, result.error, "mpc")

\* json.dumps({"valve_position": v, "source": "manual", "sim_time": ...})
DumpManual(v) ==
    Payload("json", {"valve_position", "source", "sim_time"}, "number", v, "",
            "manual")

----------------------------------------------------------------------------
(* app/main.py: the controller service *)

Callers == {"job", "force"}

\* latest: how the caller's history query ended ("value", "empty", "error").
\* entry_time: current_time when optimize was entered; weather_start and
\* start_time: the start_time of get_mock_weather_forecast and of
\* get_tempo_electricity_prices; price_from: the instant the price vector was
\* built from.
Idle ==
    [pc |-> "idle", T_init |-> 0, start_time |-> 0, req |-> "unset",
     latest |-> "unset", entry_time |-> 0, weather_start |-> 0, price_from |-> 0]

\* seq is 0 until optimize first returns, and then changes (between 1 and 2)
\* at every return.
NoReturn ==
    [seq |-> 0, caller |-> "none", value |-> NoneValue, T_init |-> 0,
     req |-> "unset", raised |-> FALSE, latest |-> "unset"]

\* datetime.now() when MPCService is constructed.
ServiceStart == 13 * HourSeconds

\* Payloads of the clock topic: ISO timestamps and a text that
\* datetime.fromisoformat rejects.
ClockPayloads ==
    { IsoFormat(23 * HourSeconds),
      IsoText(0, 25, 0, 0) }

\* Texts handed to update_time on its own: the payloads above, an earlier
\* instant, the instant the service started at, an instant of the next day,
\* a minute out of range and a text that is no timestamp.
ClockTexts ==
    ClockPayloads \cup
    { IsoFormat(5 * HourSeconds),
      IsoFormat(ServiceStart),
      IsoFormat(DaySeconds + 5 * HourSeconds + 30 * 60 + 15),
      IsoText(0, 12, 60, 0),
      [form |-> "text", day |-> 0, hour |-> 0, minute |-> 0, second |-> 0] }

\* How the history query of get_latest_data ends: a last record, no record,
\* or an exception (of the client, of the query or of float()).
QueryOutcomes == {"value", "empty", "error"}

\* get_latest_data: the last stored temperature; None when the result is
\* empty and when anything raised (the exception is logged).
get_latest_data(outcome) ==
    IF outcome = "value"
    THEN [present |-> TRUE, value |-> 185]
    ELSE [present |-> FALSE, value |-> 0]

LatestReadings == { get_latest_data(outcome) : outcome \in QueryOutcomes }

FallbackTInit == 200

\* A plausible slip: no fallback, None goes on to optimize.
InitialTemperature_unchecked(latest) == latest.value

\* "if t_init is None: t_init = 20.0" of run_mpc_job and force_optimization.
InitialTemperature(latest) ==
    IF latest.present THEN latest.value ELSE FallbackTInit

\* Powers of a successful solve in the runs of the service.
ServicePowers == {1305, 4500}

\* Values an operator may post to /control/valve (ValveControlRequest: any int).
OperatorValves == {40, 150}

\* MQTTService.__init__ always sets self.client.
MqttClientPresent == TRUE

InitService ==
    /\ is_auto_mode = TRUE
    /\ current_time = ServiceStart
    /\ mode_req = "unset"
    /\ override = FALSE
    /\ call = [c \in Callers |-> Idle]
    /\ command_topic = <<>>
    /\ ret = NoReturn
    /\ n_ops = 0

\* A plausible slip: publish whatever optimize returned.
CallerPublishes_always(result) == MqttClientPresent

\* run_mpc_job lines 60-62 and force_optimization lines 105-107:
\* "if result and 'valve_position' in result" and the client check.
CallerPublishes(result) ==
    /\ result.kind = "action"
    /\ MqttClientPresent

\* A plausible slip: an optimizer failure leaves the service in manual mode.
ModeAfterOptimize_manual_on_failure(auto_mode, result) ==
    IF result.has_error THEN FALSE ELSE auto_mode

\* is_auto_mode once optimize and its caller are through: neither optimize
\* (mpc_service.py:108-184) nor run_mpc_job nor force_optimization assigns it.
ModeAfterOptimize(auto_mode, result) == auto_mode

\* optimize hands "result" back to caller c, which publishes it or not.
\* "raised" records that a statement of optimize's try block raised.
Return(c, result, t_init, req, raised, latest) ==
    /\ CallerPublishes(result) => Len(command_topic) < MaxQueue
    /\ command_topic' = IF CallerPublishes(result)
                        THEN Append(command_topic, DumpAction(result))
                        ELSE command_topic
    /\ ret' = [seq |-> IF ret.seq = 1 THEN 2 ELSE 1, caller |-> c, value |-> result,
               T_init |-> t_init, req |-> req, raised |-> raised,
               latest |-> latest]
    /\ call' = [call EXCEPT ![c] = Idle]
    /\ is_auto_mode' = ModeAfterOptimize(is_auto_mode, result)

\* A plausible slip: the loop starts from self.current_time, read again after
\* the Tempo requests.
PriceVectorStart_reread(start_time, time_now) == time_now

\* Line 87, "current_step_time = start_time": the price vector starts from the
\* local bound at line 54, before the Tempo requests were awaited.
PriceVectorStart(start_time, time_now) == start_time

\* The scheduler fires run_mpc_job, or a client posts /force-optimization:
\* the caller awaits influx_service.get_latest_data.
Start(c) ==
    /\ program = "service"
    /\ n_ops < MaxOps
    /\ call[c].pc = "idle"
    /\ call' = [call EXCEPT ![c].pc = "fetch"]
    /\ n_ops' = n_ops + 1
    /\ UNCHANGED <<is_auto_mode, current_time, mode_req, override, command_topic, ret>>

\* get_latest_data answers; optimize is entered.  In manual mode it returns
\* None at once; otherwise it reads current_time for both forecasts and awaits
\* the Tempo request.
FetchDone(c) ==
    /\ program = "service"
    /\ call[c].pc = "fetch"
    /\ \E outcome \in QueryOutcomes :
         LET t_init == InitialTemperature(get_latest_data(outcome)) IN
         IF OptimizeSkips(is_auto_mode)
         THEN Return(c, NoneValue, t_init, mode_req, FALSE, outcome)
         ELSE /\ call' = [call EXCEPT ![c] =
                            [pc |-> "prices", T_init |-> t_init,
                             start_time |-> current_time, req |-> mode_req,
                             latest |-> outcome, entry_time |-> current_time,
                             weather_start |-> current_time, price_from |-> 0]]
              /\ UNCHANGED <<command_topic, ret, is_auto_mode>>
    /\ UNCHANGED <<current_time, mode_req, override, n_ops>>

\* The Tempo request is over (its own errors are caught and replaced by
\* "Inconnu"); the price vector and the GEKKO model are built and the solve is
\* handed to a worker thread, unless one of these statements raises.
PricesDone(c) ==
    /\ program = "service"
    /\ call[c].pc = "prices"
    /\ \/ /\ call' = [call EXCEPT
                         ![c].pc = "solve",
                         ![c].price_from =
                             PriceVectorStart(call[c].start_time, current_time)]
          /\ UNCHANGED <<command_topic, ret, is_auto_mode>>
       \/ \E msg \in ErrorMessages :
            Return(c, OptimizeFailSafe(msg), call[c].T_init, call[c].req, TRUE,
                   call[c].latest)
    /\ UNCHANGED <<current_time, mode_req, override, n_ops>>

\* The solve is over: a first power of the plan, or an exception.
SolveDone(c) ==
    /\ program = "service"
    /\ call[c].pc = "solve"
    /\ \/ \E p \in ServicePowers :
            Return(c, OptimizeSuccess(p), call[c].T_init, call[c].req, FALSE,
                   call[c].latest)
       \/ \E msg \in ErrorMessages :
            Return(c, OptimizeFailSafe(msg), call[c].T_init, call[c].req, TRUE,
                   call[c].latest)
    /\ UNCHANGED <<current_time, mode_req, override, n_ops>>

\* POST /control/mode: set_auto_mode(request.auto_mode).
SetControlMode(enabled) ==
    /\ program = "service"
    /\ n_ops < MaxOps
    /\ is_auto_mode' = enabled
    /\ mode_req' = IF enabled THEN "auto" ELSE "manual"
    /\ override' = IF enabled THEN FALSE ELSE override
    /\ n_ops' = n_ops + 1
    /\ UNCHANGED <<current_time, call, command_topic, ret>>

\* POST /control/valve: set_auto_mode(False), then publish the operator's
\* value on the command topic.
ManualValveControl(v) ==
    /\ program = "service"
    /\ n_ops < MaxOps
    /\ Len(command_topic) < MaxQueue
    /\ is_auto_mode' = FALSE
    /\ mode_req' = "manual"
    /\ override' = IF MqttClientPresent THEN TRUE ELSE override
    /\ command_topic' = IF MqttClientPresent
                        THEN Append(command_topic, DumpManual(v))
                        ELSE command_topic
    /\ n_ops' = n_ops + 1
    /\ UNCHANGED <<current_time, call, ret>>

\* handle_clock_sync -> MPCService.update_time(iso_time): a ValueError of
\* fromisoformat is logged and current_time keeps its value.
HandleClockSync(iso) ==
    /\ program = "service"
    /\ n_ops < MaxOps
    /\ current_time' = UpdateTime(current_time, iso)
    /\ n_ops' = n_ops + 1
    /\ UNCHANGED <<is_auto_mode, mode_req, override, call, command_topic, ret>>

\* The broker forwards the oldest payload of the command topic to its
\* subscribers.
BrokerForward ==
    /\ program = "service"
    /\ command_topic # <<>>
    /\ command_topic' = Tail(command_topic)
    /\ UNCHANGED <<is_auto_mode, current_time, mode_req, override, call, ret, n_ops>>

NextService ==
    /\ \/ \E c \in Callers : Start(c)
       \/ \E c \in Callers : FetchDone(c)
       \/ \E c \in Callers : PricesDone(c)
       \/ \E c \in Callers : SolveDone(c)
       \/ \E enabled \in BOOLEAN : SetControlMode(enabled)
       \/ \E v \in OperatorValves : ManualValveControl(v)
       \/ \E iso \in ClockPayloads : HandleClockSync(iso)
       \/ BrokerForward
    /\ UNCHANGED <<program, scenario, ev, twin_vars, batch_vars, unit_vars, mqtt_vars>>

----------------------------------------------------------------------------
(* app/digital_twin/simulator.py and physics.py: the digital twin *)

\* datetime.now() when the Simulator is constructed (the wall-clock day
\* starts at instant 0 and does not change during the run).
StartInstants == {5 * HourSeconds}

\* What arrives on the subscription "home/+/valve/set": the controller's
\* payloads and those of any other client of the broker.
TwinMessages ==
    { DumpAction(OptimizeFailSafe("")),
      DumpManual(150),
      Payload("json", {"valve_position"}, "number", -5, "", "other"),
      Payload("json", {"valve_position"}, "text", 0, "", "other"),
      Payload("json", {"valve_position"}, "bool", 1, "", "other"),
      Payload("json value", {}, "null", 0, "", "other"),
      Payload("json", {"source"}, "null", 0, "", "other"),
      Payload("text", {}, "null", 0, "", "other") }

\* (t_air, t_m) of Zone.calc_temperatures_crank_nicolson, a solver outside
\* this repository: any of these pairs.
PhysicsOutcomes == { <<185, 195>>, <<190, 195>>, <<200, 200>>, <<205, 200>> }

\* timedelta(days=data.get("duration_days", 3)), in seconds.
Duration(data) == Get(data, "duration_hours", 3 * 24) * HourSeconds

\* has_cmd and cmd: whether the listener has assigned valve_pos since the last
\* tick, and the last value it assigned.
NoEvent ==
    [kind |-> "none", valve |-> 0, price |-> 0, cost_step |-> 0,
     has_cmd |-> FALSE, cmd |-> 0]

InitTwin ==
    /\ \E doc \in Scenarios, readable \in BOOLEAN :
         scenario = LoadScenario(doc, readable)
    /\ sim_pc = "start"
    /\ current_sim_time \in StartInstants
    /\ sim_start = current_sim_time
    /\ T_int = Get(scenario, "initial_temp", SIM_INITIAL_TEMP)
    /\ T_m = T_int
    /\ valve_pos = 0
    /\ total_cost = 0
    /\ running = TRUE
    /\ listener = "created"
    /\ inbox = <<>>
    /\ published = <<>>
    /\ ev = NoEvent

\* (valve_pos / 100.0) * SIM_HEATER_MAX_POWER
HeatPower(valve) == (valve * SIM_HEATER_MAX_POWER) \div 100

\* A plausible slip: the sign of the cost.
SimCostStep_refund(P_heat, dt_sim, elec_price) ==
    0 - ((P_heat * dt_sim) \div HourSeconds) * elec_price

\* cost_step = P_heat_display * (dt_sim / 3600.0) * elec_price / 1000.0
SimCostStep(P_heat, dt_sim, elec_price) ==
    ((P_heat * dt_sim) \div HourSeconds) * elec_price

\* Step 4b: heat ON below T_MIN, OFF above T_MIN + 1 degree.
Thermostat(t_int, valve) ==
    IF t_int < T_MIN THEN 100
    ELSE IF t_int > T_MIN + 10 THEN 0
    ELSE valve

\* The body of listen_for_commands for one message: json.loads, the key
\* test and float(); any exception is logged and valve_pos keeps its value.
\* float() converts a number, a numeric string and a bool (float(True) is
\* 1.0); it raises on any other string, on None, on a list and on a dict.  On
\* JSON that is no object the key test or the subscript raises TypeError.
ListenerAccepts(m) ==
    /\ m.fmt = "json"
    /\ "valve_position" \in m.keys
    /\ m.valve_type \in {"number", "numeric string", "bool"}

\* A plausible slip: the value is bound to a local name, not to self.valve_pos.
ListenerValve_dropped(m, valve) == valve

\* valve_pos after the listener's body has run on message m.
ListenerValve(m, valve) ==
    IF ListenerAccepts(m) THEN m.valve_position ELSE valve

\* The run task is suspended in an await of the loop body.
Suspended == sim_pc \in {"publish_clock", "publish_metrics", "sleep"}

\* run() has left its main loop: by the break, by an exception of the body,
\* or by CancelledError.
LeftLoop == sim_pc \in {"done", "crashed", "cancelled"}

\* A plausible slip: the clock follows the speed factor.
AdvanceTime_scaled(t, dt_sim) == t + 2 * dt_sim

\* self.current_sim_time += timedelta(seconds=dt_sim)
AdvanceTime(t, dt_sim) == t + dt_sim

\* A plausible slip: > for >=.
DurationReached_strict(now, start, duration) == now - start > duration

\* if self.current_sim_time - self.sim_start >= self.duration
DurationReached(now, start, duration) == now - start >= duration

\* A plausible slip: the break is missing, the loop ends at its next test.
BreaksOut_falls_through(reached) == FALSE

\* The break of the duration test skips the rest of the loop body.
BreaksOut(reached) == reached

\* A plausible slip: the task is left running.
ListenerAfterRun_leaked(task) == task

\* finally: listener_task.cancel().  A task that is cancelled never runs its
\* body again: CancelledError is thrown into it at its await.
ListenerAfterRun(task) == "cancelled"

\* A plausible slip: the clock goes out on the metrics topic.
ClockMessage_on_metrics_topic(t) ==
    [topic |-> "metrics", sim_time |-> t, power_consumption |-> 0,
     valve_position |-> 0, electricity_price |-> 0, heating_cost_step |-> 0,
     heating_cost_cumulative |-> 0]

\* publish(MQTT_TOPIC_CLOCK, self.current_sim_time.isoformat())
ClockMessage(t) ==
    [topic |-> "clock", sim_time |-> t, power_consumption |-> 0,
     valve_position |-> 0, electricity_price |-> 0, heating_cost_step |-> 0,
     heating_cost_cumulative |-> 0]

\* The payload of publish_state, published on MQTT_TOPIC_METRICS: P_heat,
\* elec_price and cost_step are the arguments of the call, valve_position,
\* heating_cost_cumulative and sim_time are read from self when the payload is
\* built.  (The temperatures and the solar power are left out.)
MetricsRecord(t, P_heat, valve, elec_price, cost_step, total) ==
    [topic |-> "metrics", sim_time |-> t, power_consumption |-> P_heat,
     valve_position |-> valve, electricity_price |-> elec_price,
     heating_cost_step |-> cost_step, heating_cost_cumulative |-> total]

\* One iteration of the main loop, from its top to the first await of
\* publish_state, inside client.publish, which has taken the clock message.
\* It starts when run() reaches the loop, when the pacing sleep is over, or
\* straight after the metrics publish when parking <= 0.
Tick ==
    /\ program = "twin"
    /\ sim_pc \in {"start", "sleep", "publish_metrics"}
    /\ running
    /\ LET now == AdvanceTime(current_sim_time, SIM_TIME_STEP)
           reached == DurationReached(now, sim_start, Duration(scenario))
           hour == HourOf(now)
           total_days == now \div DaySeconds
           weather == get_weather_at(scenario, total_days, hour)
           pricing == get_price_at(scenario, total_days, hour)
           P_heat_display == HeatPower(valve_pos)
           cost_step == SimCostStep(P_heat_display, SIM_TIME_STEP, pricing.price)
       IN /\ current_sim_time' = now
          /\ running' = IF reached THEN FALSE ELSE running
          /\ IF BreaksOut(reached)
             THEN \* duration reached: leave the loop, finally cancels the listener
                  /\ sim_pc' = "done"
                  /\ listener' = ListenerAfterRun(listener)
                  /\ ev' = [NoEvent EXCEPT !.kind = "finished"]
                  /\ published' = <<>>
                  /\ UNCHANGED <<T_int, T_m, valve_pos, total_cost>>
             ELSE IF weather.exc # "none"
             THEN \* the exception leaves run(); finally cancels the listener
                  /\ sim_pc' = "crashed"
                  /\ listener' = ListenerAfterRun(listener)
                  /\ ev' = [NoEvent EXCEPT !.kind = "crash"]
                  /\ published' = <<>>
                  /\ UNCHANGED <<T_int, T_m, valve_pos, total_cost>>
             ELSE \E out \in PhysicsOutcomes :
                  /\ T_int' = out[1]
                  /\ T_m' = out[2]
                  /\ valve_pos' = Thermostat(out[1], valve_pos)
                  /\ total_cost' = total_cost + cost_step
                  /\ sim_pc' = "publish_clock"
                  /\ listener' = IF listener = "created" THEN "running" ELSE listener
                  /\ ev' = [kind |-> "tick", valve |-> valve_pos,
                            price |-> pricing.price, cost_step |-> cost_step,
                            has_cmd |-> FALSE, cmd |-> 0]
                  /\ published' = <<ClockMessage(now)>>
    /\ UNCHANGED <<sim_start, inbox>>

\* The clock publish is over; publish_state builds the payload and awaits the
\* metrics publish.  P_heat, elec_price and cost_step are the tick's values.
PublishClockDone ==
    /\ program = "twin"
    /\ sim_pc = "publish_clock"
    /\ sim_pc' = "publish_metrics"
    /\ published' = Append(published,
                           MetricsRecord(current_sim_time, HeatPower(ev.valve),
                                         valve_pos, ev.price, ev.cost_step,
                                         total_cost))
    /\ UNCHANGED <<current_sim_time, sim_start, T_int, T_m, valve_pos, total_cost,
                   running, listener, inbox, ev>>

\* The metrics publish is over and parking > 0: the pacing sleep.
PublishMetricsDone ==
    /\ program = "twin"
    /\ sim_pc = "publish_metrics"
    /\ sim_pc' = "sleep"
    /\ UNCHANGED <<current_sim_time, sim_start, T_int, T_m, valve_pos, total_cost,
                   running, listener, inbox, published, ev>>

\* The task running run() is cancelled while it awaits: CancelledError is
\* caught, finally cancels the listener.
CancelRun ==
    /\ program = "twin"
    /\ Suspended
    /\ sim_pc' = "cancelled"
    /\ listener' = ListenerAfterRun(listener)
    /\ ev' = [NoEvent EXCEPT !.kind = "cancel"]
    /\ UNCHANGED <<current_sim_time, sim_start, T_int, T_m, valve_pos, total_cost,
                   running, inbox, published>>

\* The broker delivers a payload on the subscription.
Deliver(m) ==
    /\ program = "twin"
    /\ ~LeftLoop
    /\ Len(inbox) < MaxInbox
    /\ inbox' = Append(inbox, m)
    /\ UNCHANGED <<sim_pc, current_sim_time, sim_start, T_int, T_m, valve_pos,
                   total_cost, running, listener, published, ev>>

\* The fields of self that are in scope of listen_for_commands.
Self ==
    [valve_pos |-> valve_pos, T_int |-> T_int, T_m |-> T_m,
     total_cost |-> total_cost, current_sim_time |-> current_sim_time,
     running |-> running]

\* A plausible slip: a message that cannot be applied stops the simulation.
ListenerBody_stops_on_error(self, m) ==
    [self EXCEPT !.valve_pos = ListenerValve(m, self.valve_pos),
                 !.running = IF ListenerAccepts(m) THEN self.running ELSE FALSE]

\* One iteration of "async for message in self.client.messages".
ListenerBody(self, m) ==
    [self EXCEPT !.valve_pos = ListenerValve(m, self.valve_pos)]

\* listen_for_commands takes the next message while run() awaits: in the loop
\* body, or, once it has left the loop, in the exit of "async with Client".
\* ev keeps the arguments of publish_state until the payload is built.
Listen ==
    /\ program = "twin"
    /\ Suspended \/ LeftLoop
    /\ listener = "running"
    /\ inbox # <<>>
    /\ LET self == ListenerBody(Self, Head(inbox))
       IN /\ valve_pos' = self.valve_pos
          /\ T_int' = self.T_int
          /\ T_m' = self.T_m
          /\ total_cost' = self.total_cost
          /\ current_sim_time' = self.current_sim_time
          /\ running' = self.running
    /\ inbox' = Tail(inbox)
    /\ ev' = [ev EXCEPT
                 !.kind = "listen",
                 !.has_cmd = ListenerAccepts(Head(inbox)) \/ ev.has_cmd,
                 !.cmd = IF ListenerAccepts(Head(inbox))
                         THEN Head(inbox).valve_position ELSE ev.cmd]
    /\ UNCHANGED <<sim_pc, sim_start, listener, published>>

NextTwin ==
    /\ \/ Tick
       \/ PublishClockDone
       \/ PublishMetricsDone
       \/ CancelRun
       \/ \E m \in TwinMessages : Deliver(m)
       \/ Listen
    /\ UNCHANGED <<program, scenario, svc_vars, batch_vars, unit_vars, mqtt_vars>>

\* The commands of the runs in which termination is checked: one that the
\* listener applies and one that it discards.
FairMessages ==
    { DumpManual(150),
      Payload("text", {}, "null", 0, "", "other") }

\* NextTwin with these commands.
NextTwinFair ==
    /\ \/ Tick
       \/ PublishClockDone
       \/ PublishMetricsDone
       \/ CancelRun
       \/ \E m \in FairMessages : Deliver(m)
       \/ Listen
    /\ UNCHANGED <<program, scenario, svc_vars, batch_vars, unit_vars, mqtt_vars>>

----------------------------------------------------------------------------
(* run_simulation.py: the batch loop *)

\* --start of the model's batch runs; --end is MaxTicks steps later.
BatchStart == 22 * HourSeconds

\* Temperatures the physics step may return to the batch loop.
BatchOutcomes ==
    { <<190, 195>>, <<195, 195>>, <<200, 200>>, <<205, 200>>, <<210, 200>> }

\* Powers of a successful solve in the batch runs.
BatchPowers == {0, 1305, 4500}

InitBatch ==
    /\ scenario \in Scenarios
    /\ b_mode \in {"mpc", "manual"}
    /\ b_time = BatchStart
    /\ b_end = BatchStart + MaxTicks * SIM_TIME_STEP
    /\ b_T_int = Get(scenario, "initial_temp", SIM_INITIAL_TEMP)
    /\ b_T_m = b_T_int
    /\ b_valve_pos = 0
    /\ b_total_cost = 0
    /\ b_pc = "loop"
    /\ b_action = NoneValue
    /\ is_auto_mode = TRUE
    /\ current_time = ServiceStart
    /\ ev = NoEvent

\* (current_time - start_date).days % max(1, duration_days)
BatchSimDay(data, days_elapsed) ==
    LET duration_hours == Get(data, "duration_hours", 3 * 24)
    IN days_elapsed % (IF duration_hours <= 24 THEN 1 ELSE duration_hours \div 24)

\* A plausible slip: a skipped decision closes the valve.
BatchValve_reset(mode, action, valve) ==
    IF action.kind = "action" THEN action.valve_position ELSE 0

\* Lines 93-102: the valve after the controller's answer.  In mpc mode a
\* None (or a dict without "valve_position") leaves valve_pos alone.
BatchValve(mode, action, valve) ==
    IF mode = "mpc"
    THEN IF action.kind = "action" THEN action.valve_position ELSE valve
    ELSE action.valve_position

\* A plausible slip: the sign of the cost.
BatchCostStep_refund(P_heat, dt_sim, elec_price) ==
    0 - ((P_heat * dt_sim) \div HourSeconds) * elec_price

\* cost_step = P_heat_requested * (dt_sim / 3600.0) * elec_price / 1000.0
BatchCostStep(P_heat, dt_sim, elec_price) ==
    ((P_heat * dt_sim) \div HourSeconds) * elec_price

\* What the controller of the batch run answers for T_int: the hysteresis
\* rule, or an MPC call (update_time, then optimize to its end: nothing else
\* runs in this process).
BatchAnswers(mode, auto_mode, t_int) ==
    IF mode = "manual"
    THEN { ManualOptimize(ManualTarget, ManualDelta, t_int) }
    ELSE IF OptimizeSkips(auto_mode)
    THEN { NoneValue }
    ELSE { OptimizeSuccess(p) : p \in BatchPowers }
           \cup { OptimizeFailSafe(msg) : msg \in ErrorMessages }

\* One iteration of "while current_time < end_date".
BatchStep ==
    /\ program = "batch"
    /\ b_pc = "loop"
    /\ b_time < b_end
    /\ LET hour == HourOf(b_time)
           sim_day == BatchSimDay(scenario, (b_time - BatchStart) \div DaySeconds)
           weather == get_weather_at(scenario, sim_day, hour)
           pricing == get_price_at(scenario, sim_day, hour)
       IN IF weather.exc # "none"
          THEN /\ b_pc' = "crashed"
               /\ ev' = [NoEvent EXCEPT !.kind = "crash"]
               /\ UNCHANGED <<b_time, b_T_int, b_T_m, b_valve_pos, b_total_cost,
                              b_action, current_time>>
          ELSE \E action \in BatchAnswers(b_mode, is_auto_mode, b_T_int),
                  out \in BatchOutcomes :
               LET valve == BatchValve(b_mode, action, b_valve_pos)
                   P_heat_requested == HeatPower(valve)
                   cost_step == BatchCostStep(P_heat_requested, SIM_TIME_STEP,
                                              pricing.price)
               IN /\ current_time' = IF b_mode = "mpc"
                                     THEN UpdateTime(current_time, IsoFormat(b_time))
                                     ELSE current_time
                  /\ b_action' = action
                  /\ b_valve_pos' = valve
                  /\ b_T_int' = out[1]
                  /\ b_T_m' = out[2]
                  /\ b_time' = b_time + SIM_TIME_STEP
                  /\ b_total_cost' = b_total_cost + cost_step
                  /\ b_pc' = "loop"
                  /\ ev' = [kind |-> "batch", valve |-> valve,
                            price |-> pricing.price, cost_step |-> cost_step,
                            has_cmd |-> FALSE, cmd |-> 0]
    /\ UNCHANGED <<b_mode, b_end, is_auto_mode>>

\* The loop condition fails: the totals are logged and the run ends.
BatchEnd ==
    /\ program = "batch"
    /\ b_pc = "loop"
    /\ b_time >= b_end
    /\ b_pc' = "done"
    /\ UNCHANGED <<b_mode, b_time, b_end, b_T_int, b_T_m, b_valve_pos,
                   b_total_cost, b_action, is_auto_mode, current_time, ev>>

NextBatch ==
    /\ \/ BatchStep
       \/ BatchEnd
    /\ UNCHANGED <<program, scenario, mode_req, override, call, command_topic, ret, n_ops,
                   twin_vars, unit_vars, mqtt_vars>>

----------------------------------------------------------------------------
(* Direct calls of the pure functions, on inputs drawn from bounded sets *)

\* Largest day index of a direct call.
MaxDayIndex == 5

UnitHours == { h * 60 : h \in 0..23 }

\* The start_time of get_tempo_electricity_prices: 05:30, 21:00 and 23:30 of
\* day 0, 06:00 of day 1.
TempoStarts ==
    { 5 * HourSeconds + 1800, 21 * HourSeconds, 23 * HourSeconds + 1800,
      DaySeconds + 6 * HourSeconds }

\* The call without start_time.
NoStart == 0 - 1

\* What the requests for today and for tomorrow come to: a 200 answer with
\* that libCouleur ("Vert" is in no price table), a 200 answer without the
\* key, an answer with another status, or an exception (no network, timeout,
\* a body that is not JSON).  After an exception of the first request the
\* second one is not made.
TempoAnswers ==
    { <<"Rouge", "Bleu">>, <<"Bleu", "Blanc">>, <<"Blanc", "Rouge">>,
      <<"Vert", "Rouge">>, <<"Bleu", "Vert">>, <<"no key", "Bleu">>,
      <<"Rouge", "no key">>, <<"status 503", "Blanc">>, <<"Bleu", "status 503">>,
      <<"Rouge", "exception">>, <<"exception", "">> }

\* The hour of get_price_at: whole hours and instants inside an hour.
PriceHours == UnitHours \cup {5 * 60 + 59, 10 * 60 + 30, 13 * 60 + 1}

\* What a controller may hand to the batch loop.
UnitActions ==
    { NoneValue } \cup { OptimizeSuccess(p) : p \in SolverPowers }
                  \cup { OptimizeFailSafe(msg) : msg \in ErrorMessages }

UnitValves == {0, 40, 100}

\* First powers of a plan: every whole percent of the heater's power, and
\* powers between two percents.
UnitPowers == { 45 * k : k \in 0..100 } \cup {44, 1234, 4499}

\* Room temperatures around the hysteresis band.
UnitTemps == 190..210

\* Successive applications of predict_next_temperature to its own result.
MaxApply == 3

\* Arguments of predict_next_temperature: temperatures in 1e-4 degree, Watts
\* and seconds (the default dt is 900).
PredictTemps == {190000, 200000, 210000}
PredictPowers == {0, 4500}
PredictSteps == {900, 3600}

NoCall ==
    [fn |-> "none", day_index |-> 0, hour |-> 0, action |-> NoneValue,
     valve |-> 0, power |-> 0, temp |-> 0, t_ext |-> 0, dt |-> 0, n |-> 0,
     has_start |-> FALSE, start_time |-> 0, today |-> "", tomorrow |-> "",
     auto |-> FALSE, text |-> IsoText(0, 0, 0, 0)]

InitUnit ==
    /\ \E doc \in Scenarios \cup {PeakHoursScenario}, readable \in BOOLEAN :
         scenario = LoadScenario(doc, readable)
    /\ u_call = NoCall
    /\ u_out = Raised("none")

\* loader.get_weather_at(day_index, hour)
CallGetWeather(day_index, hour) ==
    /\ program = "unit"
    /\ u_call' = [NoCall EXCEPT !.fn = "get_weather_at", !.day_index = day_index,
                                !.hour = hour]
    /\ u_out' = get_weather_at(scenario, day_index, hour)

\* loader.get_price_at(day_index, hour)
CallGetPrice(day_index, hour) ==
    /\ program = "unit"
    /\ u_call' = [NoCall EXCEPT !.fn = "get_price_at", !.day_index = day_index,
                                !.hour = hour]
    /\ u_out' = get_price_at(scenario, day_index, hour)

\* MPCService.get_tempo_electricity_prices(start_time), or with no argument,
\* and what the two requests to the grade source come to.
CallTempoPrices(has_start, start_time, today, tomorrow) ==
    /\ program = "unit"
    /\ u_call' = [NoCall EXCEPT !.fn = "get_tempo_electricity_prices",
                                !.has_start = has_start,
                                !.start_time = IF has_start THEN start_time ELSE 0,
                                !.today = today, !.tomorrow = tomorrow]
    /\ u_out' = get_tempo_electricity_prices(has_start, start_time, current_time,
                                             today, tomorrow)

\* Lines 97-99 of run_batch_simulation on a controller's answer.
CallBatchValve(action, valve) ==
    /\ program = "unit"
    /\ u_call' = [NoCall EXCEPT !.fn = "batch_valve", !.action = action,
                                !.valve = valve]
    /\ u_out' = BatchValve("mpc", action, valve)

\* ManualController(20.0, 0.5).optimize(current_temp)
CallManualOptimize(current_temp) ==
    /\ program = "unit"
    /\ u_call' = [NoCall EXCEPT !.fn = "manual_optimize", !.temp = current_temp]
    /\ u_out' = ManualOptimize(ManualTarget, ManualDelta, current_temp)

\* The action MPCService.optimize builds from a solve that ends with
\* P_heat.NEWVAL = optimal_power.
CallOptimizeSuccess(optimal_power) ==
    /\ program = "unit"
    /\ u_call' = [NoCall EXCEPT !.fn = "optimize_success", !.power = optimal_power]
    /\ u_out' = OptimizeSuccess(optimal_power)

\* ThermalModel().predict_next_temperature(T_in, T_ext, Power, dt)
CallPredict(T_in, T_ext, Power, dt) ==
    /\ program = "unit"
    /\ u_call' = [NoCall EXCEPT !.fn = "predict_next_temperature", !.temp = T_in,
                                !.t_ext = T_ext, !.power = Power, !.dt = dt,
                                !.n = 1]
    /\ u_out' = Returned(predict_next_temperature(T_in, T_ext, Power, dt), 0)

\* MPCService.update_time(iso_time) on a service whose clock reads cur and
\* whose is_auto_mode is auto.
CallUpdateTime(cur, auto, iso_time) ==
    /\ program = "unit"
    /\ u_call' = [NoCall EXCEPT !.fn = "update_time", !.start_time = cur,
                                !.auto = auto, !.text = iso_time]
    /\ u_out' = update_time([current_time |-> cur, is_auto_mode |-> auto],
                            iso_time)

\* The same call on the temperature the previous call returned, as long as
\* that stays within 10 degrees of the outdoor temperatures of the model.
CallPredictAgain(T_ext, Power, dt) ==
    /\ program = "unit"
    /\ u_call.fn = "predict_next_temperature"
    /\ u_call.n < MaxApply
    /\ u_out.temperature \in 110000..290000
    /\ u_call' = [u_call EXCEPT !.temp = u_out.temperature, !.t_ext = T_ext,
                                !.power = Power, !.dt = dt, !.n = u_call.n + 1]
    /\ u_out' = Returned(predict_next_temperature(u_out.temperature, T_ext,
                                                  Power, dt), 0)

NextUnit ==
    /\ program = "unit"
    /\ \/ \E d \in 0..MaxDayIndex, h \in UnitHours : CallGetWeather(d, h)
       \/ \E d \in 0..MaxDayIndex, h \in PriceHours : CallGetPrice(d, h)
       \/ \E t \in TempoStarts \cup {NoStart}, a \in TempoAnswers :
            CallTempoPrices(t # NoStart, t, a[1], a[2])
       \/ \E a \in UnitActions, v \in UnitValves : CallBatchValve(a, v)
       \/ \E t \in UnitTemps : CallManualOptimize(t)
       \/ \E p \in UnitPowers : CallOptimizeSuccess(p)
       \/ \E T_in \in PredictTemps, T_ext \in PredictTemps,
             Power \in PredictPowers, dt \in PredictSteps :
            CallPredict(T_in, T_ext, Power, dt)
       \/ \E T_ext \in PredictTemps, Power \in PredictPowers,
             dt \in PredictSteps : CallPredictAgain(T_ext, Power, dt)
       \/ \E cur \in {5 * HourSeconds, ServiceStart, 23 * HourSeconds},
             auto \in BOOLEAN, iso \in ClockTexts :
            CallUpdateTime(cur, auto, iso)
    /\ UNCHANGED <<program, scenario, ev, svc_vars, twin_vars, batch_vars, mqtt_vars>>

----------------------------------------------------------------------------
(* app/services/mqtt_service.py: MQTTService.start *)

\* Connection losses and unexpected exceptions of one run of the service.
MaxLosses == 2

\* reconnect_interval, in seconds.
reconnect_interval == 5

\* The callbacks main.py binds before the task is created.
MqttCallbacks ==
    [on_sensor_data |-> TRUE, on_valve_set |-> TRUE, on_clock_sync |-> TRUE]

\* Topics under the subscription settings.MQTT_TOPIC = "home/#", as
\* topic.split('/'): the clock topic, the metrics topic, the command topic, a
\* topic of another device, a two-level sensors topic and a topic one of
\* whose levels has "clock" inside it.
MQTT_TOPIC_CLOCK == <<"home", "sys", "clock">>
MQTT_TOPIC_METRICS == <<"home", "sensors", "chambre", "metrics">>
COMMAND_TOPIC == <<"home", "chambre", "valve", "set">>
MqttTopics ==
    { MQTT_TOPIC_CLOCK, MQTT_TOPIC_METRICS, COMMAND_TOPIC,
      <<"home", "chambre", "status">>,
      <<"home", "sensors">>,
      <<"home", "clockroom", "status">> }

\* A payload: utf8 says whether the bytes decode; json is what json.loads
\* gives ("object", "number", or "none" when the text is not JSON); sim_time
\* is what a JSON object holds under "sim_time" ("absent", an ISO timestamp
\* "iso", another string "text", or a "number").
MqttBody(utf8, json, sim_time) ==
    [utf8 |-> utf8, json |-> json, sim_time |-> sim_time]

MqttBodies ==
    { MqttBody(TRUE, "none", "absent"),
      MqttBody(TRUE, "object", "absent"),
      MqttBody(TRUE, "object", "iso"),
      MqttBody(TRUE, "object", "text"),
      MqttBody(TRUE, "object", "number"),
      MqttBody(TRUE, "number", "absent"),
      MqttBody(FALSE, "none", "absent") }

MqttMessage(topic, payload) == [topic |-> topic, payload |-> payload]
NoMessage == MqttMessage(<<>>, MqttBody(TRUE, "none", "absent"))

\* x in parts, for a list of topic levels.
InParts(x, parts) == \E i \in 1..Len(parts) : parts[i] = x

\* "clock" in topic: a substring test on the topic string, true when one of
\* its levels has "clock" inside it.
ClockInTopic(parts) ==
    \E i \in 1..Len(parts) : parts[i] \in {"clock", "clockroom"}

\* Lines 35-69: the body of "async for message in self.client.messages".
\* The callbacks awaited, in order, and the exception that leaves the body.
\* parts[2] and parts[1] of the code are parts[3] and parts[2] here.
Dispatch(self, message) ==
    LET parts == message.topic
        data == message.payload
        none == [calls |-> <<>>, exc |-> "none"]
        on_clock_sync ==
            [calls |-> <<[callback |-> "on_clock_sync", payload |-> data]>>,
             exc |-> "none"]
        on_sensor_data ==
            [calls |-> <<[callback |-> "on_sensor_data", location |-> parts[3],
                          data |-> data,
                          sim_time |-> IF data.sim_time = "iso"
                                       THEN "datetime" ELSE "None"]>>,
             exc |-> "none"]
        on_valve_set ==
            [calls |-> <<[callback |-> "on_valve_set", location |-> parts[2],
                          data |-> data]>>,
             exc |-> "none"]
    IN
    IF ~data.utf8 THEN [calls |-> <<>>, exc |-> "UnicodeDecodeError"]
    ELSE IF data.json = "none"
    THEN IF ClockInTopic(parts) /\ self.on_clock_sync THEN on_clock_sync
         ELSE none
    ELSE IF Len(parts) >= 3
    THEN IF InParts("sensors", parts)
         THEN IF data.json # "object"
              THEN [calls |-> <<>>, exc |-> "TypeError"]
              ELSE IF data.sim_time = "number"
              THEN [calls |-> <<>>, exc |-> "AttributeError"]
              ELSE IF self.on_sensor_data THEN on_sensor_data
              ELSE none
         ELSE IF InParts("valve", parts) /\ InParts("set", parts)
                 /\ self.on_valve_set
              THEN on_valve_set
              ELSE none
    ELSE IF InParts("sys", parts) /\ InParts("clock", parts)
            /\ self.on_clock_sync
         THEN on_clock_sync
         ELSE none

\* A plausible slip: an unexpected exception ends the loop.
StartAfter_gives_up(exc) ==
    CASE exc = "MqttError" -> "sleep"
      [] exc = "CancelledError" -> "stopped"
      [] OTHER -> "stopped"

\* Lines 71-79: where start goes when exc leaves its try block: MqttError and
\* any other Exception are logged and the loop sleeps; CancelledError breaks.
StartAfter(exc) ==
    CASE exc = "MqttError" -> "sleep"
      [] exc = "CancelledError" -> "stopped"
      [] OTHER -> "sleep"

InitMqtt ==
    /\ mq_pc = "connect"
    /\ mq_msg = NoMessage
    /\ mq_calls = <<>>
    /\ mq_losses = 0
    /\ mq_waited = 0
    /\ mq_cancelled = FALSE

\* exc leaves the try block of the loop.
MqttLeaveTry(exc) ==
    /\ mq_pc' = StartAfter(exc)
    /\ mq_waited' = 0
    /\ mq_losses' = mq_losses + 1

\* "async with self.client": the connection is made, or fails with MqttError
\* or with another exception.
MqttConnect ==
    /\ program = "mqtt"
    /\ mq_pc = "connect"
    /\ \/ /\ mq_pc' = "subscribe"
          /\ UNCHANGED <<mq_losses, mq_waited>>
       \/ /\ mq_losses < MaxLosses
          /\ \E exc \in {"MqttError", "OSError"} : MqttLeaveTry(exc)
    /\ mq_msg' = NoMessage
    /\ mq_calls' = <<>>
    /\ UNCHANGED mq_cancelled

\* await self.client.subscribe(settings.MQTT_TOPIC)
MqttSubscribe ==
    /\ program = "mqtt"
    /\ mq_pc = "subscribe"
    /\ \/ /\ mq_pc' = "receive"
          /\ UNCHANGED <<mq_losses, mq_waited>>
       \/ /\ mq_losses < MaxLosses
          /\ MqttLeaveTry("MqttError")
    /\ mq_msg' = NoMessage
    /\ mq_calls' = <<>>
    /\ UNCHANGED mq_cancelled

\* One iteration of the receive loop on message m.  An exception of the body
\* leaves "async with" and reaches the handlers of the outer try.
MqttReceive(m) ==
    /\ program = "mqtt"
    /\ mq_pc = "receive"
    /\ LET r == Dispatch(MqttCallbacks, m)
       IN /\ r.exc # "none" => mq_losses < MaxLosses
          /\ mq_msg' = m
          /\ mq_calls' = r.calls
          /\ IF r.exc = "none"
             THEN UNCHANGED <<mq_pc, mq_losses, mq_waited>>
             ELSE MqttLeaveTry(r.exc)
    /\ UNCHANGED mq_cancelled

\* The connection is lost while the loop waits for a message: the message
\* iterator raises MqttError.
MqttConnectionLost ==
    /\ program = "mqtt"
    /\ mq_pc = "receive"
    /\ mq_losses < MaxLosses
    /\ MqttLeaveTry("MqttError")
    /\ mq_msg' = NoMessage
    /\ mq_calls' = <<>>
    /\ UNCHANGED mq_cancelled

\* await asyncio.sleep(reconnect_interval) returns and the loop starts over.
MqttSleepDone ==
    /\ program = "mqtt"
    /\ mq_pc = "sleep"
    /\ mq_pc' = "connect"
    /\ mq_waited' = reconnect_interval
    /\ mq_msg' = NoMessage
    /\ mq_calls' = <<>>
    /\ UNCHANGED <<mq_losses, mq_cancelled>>

\* lifespan's task.cancel(): CancelledError is raised at the await the task
\* is suspended in.  Inside the try it is caught and breaks the loop; in the
\* sleep it leaves start.  Either way the task ends.
MqttCancel ==
    /\ program = "mqtt"
    /\ mq_pc # "stopped"
    /\ mq_pc' = IF mq_pc = "sleep" THEN "stopped" ELSE StartAfter("CancelledError")
    /\ mq_cancelled' = TRUE
    /\ mq_msg' = NoMessage
    /\ mq_calls' = <<>>
    /\ UNCHANGED <<mq_losses, mq_waited>>

NextMqtt ==
    /\ \/ MqttConnect
       \/ MqttSubscribe
       \/ \E topic \in MqttTopics, payload \in MqttBodies :
            MqttReceive(MqttMessage(topic, payload))
       \/ MqttConnectionLost
       \/ MqttSleepDone
       \/ MqttCancel
    /\ UNCHANGED <<program, scenario, ev, svc_vars, twin_vars, batch_vars, unit_vars>>

----------------------------------------------------------------------------
(* The programs and their specifications *)

\* The state of a program that is not running.
OffService ==
    /\ mode_req = "unset"
    /\ override = FALSE
    /\ call = [c \in Callers |-> Idle]
    /\ command_topic = <<>>
    /\ ret = NoReturn
    /\ n_ops = 0

OffMpc ==
    /\ is_auto_mode = TRUE
    /\ current_time = ServiceStart

OffTwin ==
    /\ sim_pc = "off"
    /\ current_sim_time = 0
    /\ sim_start = 0
    /\ T_int = 0
    /\ T_m = 0
    /\ valve_pos = 0
    /\ total_cost = 0
    /\ running = FALSE
    /\ listener = "off"
    /\ inbox = <<>>
    /\ published = <<>>

OffBatch ==
    /\ b_mode = "off"
    /\ b_time = 0
    /\ b_end = 0
    /\ b_T_int = 0
    /\ b_T_m = 0
    /\ b_valve_pos = 0
    /\ b_total_cost = 0
    /\ b_pc = "off"
    /\ b_action = NoneValue

OffUnit ==
    /\ u_call = NoCall
    /\ u_out = Raised("none")

OffMqtt ==
    /\ mq_pc = "off"
    /\ mq_msg = NoMessage
    /\ mq_calls = <<>>
    /\ mq_losses = 0
    /\ mq_waited = 0
    /\ mq_cancelled = FALSE

InitOf(p) ==
    /\ program = p
    /\ CASE p = "service" ->
              /\ InitService
              /\ scenario = EmptyScenario
              /\ ev = NoEvent
              /\ OffTwin /\ OffBatch /\ OffUnit /\ OffMqtt
         [] p = "twin" ->
              /\ InitTwin
              /\ OffService /\ OffMpc /\ OffBatch /\ OffUnit /\ OffMqtt
         [] p = "batch" ->
              /\ InitBatch
              /\ OffService /\ OffTwin /\ OffUnit /\ OffMqtt
         [] p = "mqtt" ->
              /\ InitMqtt
              /\ scenario = EmptyScenario
              /\ ev = NoEvent
              /\ OffService /\ OffMpc /\ OffTwin /\ OffBatch /\ OffUnit
         [] OTHER ->
              /\ InitUnit
              /\ ev = NoEvent
              /\ OffService /\ OffMpc /\ OffTwin /\ OffBatch /\ OffMqtt

Init == \E p \in {"service", "twin", "batch", "unit", "mqtt"} : InitOf(p)

Next == NextService \/ NextTwin \/ NextBatch \/ NextUnit \/ NextMqtt

Spec == Init /\ [][Next]_vars

SpecService == InitOf("service") /\ [][NextService]_vars
SpecTwin == InitOf("twin") /\ [][NextTwin]_vars
SpecBatch == InitOf("batch") /\ [][NextBatch]_vars
SpecUnit == InitOf("unit") /\ [][NextUnit]_vars
SpecMqtt == InitOf("mqtt") /\ [][NextMqtt]_vars

\* MQTTService.start on a live event loop: the sleep ends after its interval
\* and an attempt to connect or to subscribe completes or fails.  Nothing is
\* assumed of the broker, of the messages or of a cancellation.
SpecMqttFair ==
    /\ InitOf("mqtt")
    /\ [][NextMqtt]_vars
    /\ WF_mqtt_vars(MqttSleepDone)
    /\ WF_mqtt_vars(MqttConnect)
    /\ WF_mqtt_vars(MqttSubscribe)

\* The simulator on a live event loop and a reachable broker: a publish that
\* is awaited completes, the pacing sleep ends and the loop goes on to its next
\* iteration.  Nothing is assumed of the commands or of a cancellation.
SpecTwinFair ==
    /\ InitOf("twin")
    /\ [][NextTwinFair]_vars
    /\ WF_twin_vars(Tick)
    /\ WF_twin_vars(PublishClockDone)
    /\ WF_twin_vars(PublishMetricsDone)

\* The controllers: the service, the batch loop and the direct calls.
SpecControllers ==
    /\ \E p \in {"service", "batch", "unit"} : InitOf(p)
    /\ [][NextService \/ NextBatch \/ NextUnit]_vars

\* The controller service and the simulator it commands.
SpecOnline ==
    /\ \E p \in {"service", "twin"} : InitOf(p)
    /\ [][NextService \/ NextTwin]_vars

\* The two stepping loops.
SpecLoops ==
    /\ \E p \in {"twin", "batch"} : InitOf(p)
    /\ [][NextTwin \/ NextBatch]_vars

----------------------------------------------------------------------------
(* Properties *)

\* C1 (manual mode guard).  Every optimize call that is entered while the
\* last set_auto_mode call was set_auto_mode(False) returns None, whatever
\* T_init and whatever update_time calls came in between; every call entered
\* after set_auto_mode(True) returns a ControlAction.
C1_ManualModeGuard ==
    ret.seq > 0 =>
        /\ ret.req = "manual" => ret.value = NoneValue
        /\ ret.req = "auto" => ret.value.kind = "action"

\* A call returned None in manual mode after a clock resync moved current_time.
C1_Witness ==
    /\ ret.seq > 0
    /\ ret.req = "manual"
    /\ ret.value = NoneValue
    /\ current_time # ServiceStart

\* C2 (MPC fail-safe).  Whenever a statement of optimize's try block raises,
\* optimize returns valve_position 0 and planned_power 0 with a non-empty
\* error field.
C2_FailSafeWithError ==
    (ret.seq > 0 /\ ret.raised) =>
        /\ ret.value.kind = "action"
        /\ ret.value.valve_position = 0
        /\ ret.value.planned_power = 0
        /\ ret.value.has_error
        /\ ret.value.error # ""

\* C3 (no actuation on None).  A caller that gets None from optimize publishes
\* nothing on the command topic, and the batch loop keeps valve_pos.
C3_NoActuationOnNone ==
    [][ /\ (ret'.seq # ret.seq /\ ret'.value = NoneValue)
            => command_topic' = command_topic
        /\ (u_call'.fn = "batch_valve" /\ u_call'.action = NoneValue)
            => u_out' = u_call'.valve ]_vars

\* force_optimization got None while the operator's command was still on the
\* topic, and added nothing to it.
C3_Witness ==
    /\ ret.seq > 0
    /\ ret.caller = "force"
    /\ ret.value = NoneValue
    /\ Len(command_topic) = 1
    /\ command_topic[1].source = "manual"

\* The payload of a fail-safe action, as the simulator's listener reads it.
IsFailSafePayload(m) ==
    /\ m.fmt = "json"
    /\ {"valve_position", "error"} \subseteq m.keys
    /\ m.valve_type = "number"
    /\ m.valve_position = 0
    /\ m.source = "mpc"

\* C4 (heating off on optimizer failure).  When optimize hands the fail-safe
\* action to the scheduled job, the job publishes one command whose
\* valve_position is the number 0; and the simulator's listener, on such a
\* command, sets valve_pos to 0 whatever the previous command was.
C4_FailSafePublished ==
    [][ /\ (ret'.seq # ret.seq /\ ret'.caller = "job" /\ ret'.value.has_error)
            => /\ Len(command_topic') = Len(command_topic) + 1
               /\ IsFailSafePayload(command_topic'[Len(command_topic')])
        /\ (Len(inbox') < Len(inbox) /\ IsFailSafePayload(Head(inbox)))
            => valve_pos' = 0 ]_vars

\* The job got the fail-safe action and its command is on the topic.
C4_Witness ==
    /\ ret.seq > 0
    /\ ret.caller = "job"
    /\ ret.value.has_error
    /\ Len(command_topic) = 1
    /\ IsFailSafePayload(command_topic[1])

\* valve_position is an integer of 0..100 and planned_power is in [0, P_max].
InRange(a) ==
    /\ a.valve_position \in 0..100
    /\ 0 <= a.planned_power
    /\ a.planned_power <= SIM_HEATER_MAX_POWER

\* C5 (range of a ControlAction).  Every action returned by
\* ManualController.optimize or MPCService.optimize, normal or fail-safe, for
\* a solver power in [0, P_max], has a valve_position in 0..100 and a
\* planned_power in [0, P_max].
C5_ActionInRange ==
    /\ (ret.seq > 0 /\ ret.value.kind = "action") => InRange(ret.value)
    /\ b_action.kind = "action" => InRange(b_action)
    /\ u_call.fn \in {"manual_optimize", "optimize_success"} => InRange(u_out)

\* A solve that ends at the heater's full power opens the valve fully.
C5_Witness ==
    /\ u_call.fn = "optimize_success"
    /\ u_call.power = SIM_HEATER_MAX_POWER
    /\ u_out.valve_position = 100
    /\ u_out.planned_power = SIM_HEATER_MAX_POWER

\* C6 (valve range in the simulator).  In every reachable state of the
\* Simulator, whatever commands arrived, 0 <= valve_pos <= 100.
C6_ValveInRange ==
    program = "twin" => (0 <= valve_pos /\ valve_pos <= 100)

\* planned_power = valve_position / 100 * P_max
Exact(a) == a.planned_power * 100 = a.valve_position * SIM_HEATER_MAX_POWER

\* C7 as stated.  For every ControlAction returned by a controller,
\* planned_power equals valve_position / 100 * P_max exactly.
C7_PowerMatchesValve ==
    /\ (ret.seq > 0 /\ ret.value.kind = "action") => Exact(ret.value)
    /\ b_action.kind = "action" => Exact(b_action)
    /\ u_call.fn \in {"manual_optimize", "optimize_success"} => Exact(u_out)

\* valve_position / 100 * P_max <= planned_power
\*                              <= (valve_position + 1) / 100 * P_max
Truncated(a) ==
    /\ a.valve_position * SIM_HEATER_MAX_POWER <= a.planned_power * 100
    /\ a.planned_power * 100 <= (a.valve_position + 1) * SIM_HEATER_MAX_POWER

\* C7 as amended.  planned_power equals valve_position / 100 * P_max exactly
\* for the actions of ManualController.optimize and for the fail-safe action;
\* for a successful solve planned_power is P_heat[0] itself and
\* valve_position is its percentage of P_max cut to an integer, so that
\* planned_power lies between valve_position and valve_position + 1 percent
\* of P_max.
C7_PowerWithinOnePercent ==
    /\ (ret.seq > 0 /\ ret.value.kind = "action") =>
          IF ret.value.has_error THEN Exact(ret.value) ELSE Truncated(ret.value)
    /\ (b_action.kind = "action" /\ b_mode = "manual") => Exact(b_action)
    /\ (b_action.kind = "action" /\ b_mode = "mpc") =>
          IF b_action.has_error THEN Exact(b_action) ELSE Truncated(b_action)
    /\ u_call.fn = "manual_optimize" => Exact(u_out)
    /\ u_call.fn = "optimize_success" =>
          /\ u_out.planned_power = u_call.power
          /\ Truncated(u_out)

\* A solve that ends between two percents: 1234 W is returned with valve 27.
C7_Witness ==
    /\ u_call.fn = "optimize_success"
    /\ u_call.power = 1234
    /\ u_out.valve_position = 27
    /\ u_out.planned_power = 1234

\* P_heat * (step_seconds / 3600) * price / 1000, in the model's cost unit.
ExpectedCost(P_heat, price) == ((P_heat * SIM_TIME_STEP) \div HourSeconds) * price

\* C8 (monotonic cost).  In the Simulator loop and in the batch loop, a tick
\* whose price and heating power are non-negative does not lower total_cost,
\* and raises it by exactly P_heat * (step_seconds / 3600) * price / 1000,
\* where P_heat is that tick's valve_pos / 100 * P_max.
C8_MonotonicCost ==
    [][ /\ (program = "twin" /\ sim_pc' = "publish_clock"
               /\ current_sim_time' # current_sim_time) =>
            LET P_heat == HeatPower(valve_pos)
                price == get_price_at(scenario, current_sim_time' \div DaySeconds,
                                      HourOf(current_sim_time')).price
            IN (P_heat >= 0 /\ price >= 0) =>
                  /\ total_cost' >= total_cost
                  /\ total_cost' - total_cost = ExpectedCost(P_heat, price)
        /\ (program = "batch" /\ b_time' # b_time) =>
            LET P_heat == HeatPower(b_valve_pos')
                price == get_price_at(scenario, 0, HourOf(b_time)).price
            IN (P_heat >= 0 /\ price >= 0) =>
                  /\ b_total_cost' >= b_total_cost
                  /\ b_total_cost' - b_total_cost = ExpectedCost(P_heat, price) ]_vars

\* A tick of the simulator that heated and was charged for it.
C8_Witness ==
    /\ program = "twin"
    /\ ev.kind = "tick"
    /\ ev.valve > 0
    /\ ev.price > 0
    /\ ev.cost_step > 0
    /\ total_cost >= ev.cost_step

\* C9 (scenario wraparound).  With a non-empty weather list, for any hour h
\* and any N >= len(days), get_weather_at(N, h) returns what
\* get_weather_at(N mod len(days), h) returns.
C9_Wraparound ==
    (/\ u_call.fn = "get_weather_at"
     /\ Len(Get(scenario, "weather", <<>>)) > 0
     /\ u_call.day_index >= Len(Get(scenario, "weather", <<>>))) =>
        /\ u_out.exc = "none"
        /\ u_out = get_weather_at(scenario,
                                  u_call.day_index % Len(Get(scenario, "weather", <<>>)),
                                  u_call.hour)

\* Day 5 of a two-day scenario is its second day.
C9_Witness ==
    /\ u_call.fn = "get_weather_at"
    /\ Len(Get(scenario, "weather", <<>>)) = 2
    /\ u_call.day_index = 5
    /\ u_out.exc = "none"
    /\ u_out.nebulosity = scenario.weather[2].nebulosity

\* C10 (scenario load failure).  When the scenario could not be loaded (data
\* is {}), every get_weather_at and get_price_at call returns default values
\* and raises nothing.
C10_DefaultsAfterLoadFailure ==
    (/\ program = "unit"
     /\ scenario = EmptyScenario
     /\ u_call.fn \in {"get_weather_at", "get_price_at"}) =>
        u_out.exc = "none"

\* What the hysteresis rule of ManualController(20.0, 0.5) prescribes for a
\* room temperature: full power strictly below target - delta, off otherwise.
FollowsHysteresis(a, temp) ==
    /\ a.kind = "action"
    /\ ~a.has_error
    /\ (a.valve_position = 100 /\ a.planned_power = SIM_HEATER_MAX_POWER)
          <=> temp < ManualTarget - ManualDelta
    /\ (a.valve_position = 0 /\ a.planned_power = 0)
          <=> temp >= ManualTarget - ManualDelta

\* C11 (manual hysteresis controller).  optimize(T) returns valve 100 and
\* power P_max iff T < target - delta, and valve 0 and power 0 for every other
\* T (both boundaries of the dead band included); the answer to a call is
\* fixed by its T alone, whatever the calls made before it returned.
C11_HysteresisPure ==
    [][ /\ u_call'.fn = "manual_optimize"
            => FollowsHysteresis(u_out', u_call'.temp)
        /\ (program = "batch" /\ b_mode = "manual" /\ b_time' # b_time)
            => FollowsHysteresis(b_action', b_T_int) ]_vars

\* A call at the lower boundary of the dead band (19.5 degrees), answered
\* "off".
C11_Witness ==
    /\ u_call.fn = "manual_optimize"
    /\ u_call.temp = ManualTarget - ManualDelta
    /\ u_out.valve_position = 0
    /\ u_out.planned_power = 0

\* A message that is not valid JSON, that lacks valve_position (a JSON object
\* without the key, or JSON that is no object), or whose valve_position is
\* neither a JSON number nor a string holding one.
Malformed(m) ==
    \/ m.fmt # "json"
    \/ "valve_position" \notin m.keys
    \/ m.valve_type \notin {"number", "numeric string"}

\* C12 (malformed inbound command).  When the listener takes a malformed
\* message, valve_pos keeps its last value, the listener stays ready for
\* later messages and the stepping loop goes on from where it was.
C12_MalformedDiscarded ==
    [][ (Len(inbox') < Len(inbox) /\ Malformed(Head(inbox))) =>
            /\ valve_pos' = valve_pos
            /\ listener' = "running"
            /\ sim_pc' = sim_pc
            /\ running' = running ]_vars

\* C13 (ordering guarantee).  The listener runs only while run() is suspended
\* in an await, and a tick reads valve_pos for its heating power and its
\* physics step without an await in between: when the listener has assigned
\* commands since the previous tick, the tick's physics step uses the last
\* of them, never an older value.
C13_CommandVisibleToNextTick ==
    [][ (/\ program = "twin"
         /\ current_sim_time' # current_sim_time
         /\ ev'.kind = "tick"
         /\ ev.has_cmd) => ev'.valve = ev.cmd ]_vars

\* A tick whose physics step used, and was charged for, the operator's 150
\* that the listener had assigned during the awaits before it.
C13_Witness ==
    /\ program = "twin"
    /\ ev.kind = "tick"
    /\ ev.valve = 150
    /\ total_cost > 0

\* C14 (history absence).  When get_latest_data returns None, because the
\* history is empty or because the read raised, run_mpc_job and
\* force_optimization call optimize with T_init = 20.0, and the call ends as
\* any other: None in manual mode, an action otherwise.
C14_FallbackOnMissingHistory ==
    /\ \A c \in Callers :
          (call[c].pc \in {"prices", "solve"} /\ call[c].latest # "value")
              => call[c].T_init = 200
    /\ (ret.seq > 0 /\ ret.latest # "value") =>
          /\ ret.T_init = 200
          /\ ret.req = "manual" => ret.value = NoneValue
          /\ ret.req # "manual" => ret.value.kind = "action"

\* The scheduled job found no history because the read raised, and its
\* optimize call, made with 20.0, ended with a solved action.
C14_Witness ==
    /\ ret.seq > 0
    /\ ret.caller = "job"
    /\ ret.latest = "error"
    /\ ret.T_init = 200
    /\ ret.value.kind = "action"
    /\ ~ret.value.has_error

C16_ModeOnlyByModeRequest ==
    [][ is_auto_mode' # is_auto_mode
            => \E enabled \in BOOLEAN : SetControlMode(enabled) ]_vars

\* C16 as amended.  is_auto_mode changes only in a step of the explicit
\* mode-switch request or of the manual valve command entry point, which
\* forces manual mode before it publishes; optimize, update_time, the
\* scheduled job and force-optimization leave it unchanged.
C16_ModeOnlyBySetAutoMode ==
    [][ is_auto_mode' # is_auto_mode
            => \/ \E enabled \in BOOLEAN : SetControlMode(enabled)
               \/ /\ \E v \in OperatorValves : ManualValveControl(v)
                  /\ ~is_auto_mode' ]_vars

\* The service is in manual mode after a manual valve command, an optimize
\* call having failed before it without touching the mode.
C16_Witness ==
    /\ ~is_auto_mode
    /\ mode_req = "manual"
    /\ ret.seq > 0
    /\ ret.value.has_error
    /\ ret.req # "manual"
    /\ Len(command_topic) = 1
    /\ command_topic[1].source = "manual"

\* C17 (cost accumulator of the simulator).  Whatever ticks and accepted
\* valve commands interleave, total_cost never decreases from one state to
\* the next.
C17_CostNeverDecreases ==
    [][ program = "twin" => total_cost' >= total_cost ]_vars

\* v is a nearest integer to power / P_max * 100.
NearestPercent(v, power) ==
    /\ 2 * (power * 100 - v * SIM_HEATER_MAX_POWER) <= SIM_HEATER_MAX_POWER
    /\ 2 * (v * SIM_HEATER_MAX_POWER - power * 100) <= SIM_HEATER_MAX_POWER

\* C18 (receding-horizon output).  On a successful solve optimize returns
\* planned_power = P_heat[0] and valve_position = round(P_heat[0] / P_max * 100),
\* the nearest integer percentage, for every P_heat[0] in [0, P_max].
C18_ValveIsNearestPercent ==
    u_call.fn = "optimize_success" =>
        /\ u_out.planned_power = u_call.power
        /\ NearestPercent(u_out.valve_position, u_call.power)

\* C19 (snapshot of an in-flight optimize).  A call that passed the auto-mode
\* check builds its weather forecast and its price vector from the one
\* current_time that held at entry, and ends with an action, whatever
\* set_auto_mode and update_time calls run while it is suspended.
C19_SnapshotAtEntry ==
    /\ [](\A c \in Callers :
            /\ call[c].pc \in {"prices", "solve"} =>
                  /\ call[c].weather_start = call[c].entry_time
                  /\ call[c].start_time = call[c].entry_time
            /\ call[c].pc = "solve" => call[c].price_from = call[c].entry_time)
    /\ [][ \A c \in Callers :
              (call[c].pc \in {"prices", "solve"} /\ call'[c].pc = "idle") =>
                  /\ ret'.caller = c
                  /\ ret'.value.kind = "action" ]_vars

\* A call waiting for its solve, its price vector built from the entry time,
\* after a clock resync and a switch to manual mode had come in.
C19_Witness ==
    \E c \in Callers :
        /\ call[c].pc = "solve"
        /\ call[c].price_from = call[c].entry_time
        /\ current_time # call[c].entry_time
        /\ ~is_auto_mode

\* C20 (operator override).  Once manual_valve_control has switched to manual
\* mode and published the operator's command, no step publishes a decision
\* computed by the MPC on the command topic as long as auto mode has not been
\* restored, also when an optimize call was in flight at the switch.
C20_NoMpcCommandDuringOverride ==
    [][ (override /\ override' /\ Len(command_topic') > Len(command_topic))
            => command_topic'[Len(command_topic')].source # "mpc" ]_vars

----------------------------------------------------------------------------
(* Simulator.run: termination, the final tick, cancellation *)

\* C21: Simulator.run eventually leaves its main loop whatever commands
\* arrive; it leaves it by the duration test exactly at the first tick whose
\* advanced sim_time is at least duration after sim_start (no tick before it
\* has reached the duration, and that tick does not stay in the loop), and a
\* cancellation leaves the loop too.
C21_LoopTerminates ==
    /\ <>LeftLoop
    /\ [](sim_pc = "done" =>
            /\ current_sim_time - sim_start >= Duration(scenario)
            /\ (current_sim_time - SIM_TIME_STEP) - sim_start < Duration(scenario))
    /\ [](Suspended => current_sim_time - sim_start < Duration(scenario))
    /\ [][ev'.kind = "cancel" /\ ev.kind # "cancel" => LeftLoop']_vars

\* The loop was left by the duration test, on the tick that reached the
\* duration, after ticks that applied a command received in between.
C21_Witness ==
    /\ sim_pc = "done"
    /\ ~running
    /\ current_sim_time - sim_start = Duration(scenario)
    /\ valve_pos = 150

\* C22: the tick that detects that the duration has elapsed only advances the
\* clock and sets running to False: T_int, T_m, valve_pos and total_cost keep
\* their values and nothing is published.
C22_FinalTickOnlyStops ==
    [][ (/\ current_sim_time' # current_sim_time
         /\ current_sim_time' - sim_start >= Duration(scenario))
        => /\ current_sim_time' = current_sim_time + SIM_TIME_STEP
           /\ ~running'
           /\ UNCHANGED <<T_int, T_m, valve_pos, total_cost>>
           /\ published' = <<>> ]_vars

\* The final tick has run on a simulator that had heated, at a cost, and
\* whose thermostat had opened the valve.
C22_Witness ==
    /\ sim_pc = "done"
    /\ ev.kind = "finished"
    /\ ~running
    /\ total_cost > 0
    /\ valve_pos = 100
    /\ T_int # T_m

\* C23: whenever Simulator.run has left its main loop (duration elapsed,
\* cancellation, or an exception in a tick) the command listener task is
\* cancelled, and from then on no inbound command modifies valve_pos.
C23_ListenerCancelledOnExit ==
    /\ [](LeftLoop => listener = "cancelled")
    /\ [][LeftLoop => valve_pos' = valve_pos]_vars

\* run() was cancelled while a command that the listener would apply, and
\* that would change valve_pos, was waiting on the subscription.
C23_Witness ==
    /\ sim_pc = "cancelled"
    /\ listener = "cancelled"
    /\ inbox # <<>>
    /\ ListenerAccepts(Head(inbox))
    /\ Head(inbox).valve_position # valve_pos

\* C24: every tick of the Simulator advances current_sim_time by exactly
\* SIM_TIME_STEP; current_sim_time never decreases, and no step that is not
\* the start of a tick (command listener, publish, sleep, cancellation)
\* changes it.
C24_ClockAdvancesByStep ==
    /\ [][ (/\ sim_pc \in {"start", "sleep", "publish_metrics"}
            /\ sim_pc' \in {"publish_clock", "done", "crashed"})
           => current_sim_time' = current_sim_time + SIM_TIME_STEP ]_vars
    /\ [][ current_sim_time' # current_sim_time
           => /\ current_sim_time' > current_sim_time
              /\ sim_pc \in {"start", "sleep", "publish_metrics"}
              /\ sim_pc' \in {"publish_clock", "done", "crashed"} ]_vars

\* Two ticks have run and the listener has processed a message during the
\* metrics publish of the second: the clock is two steps after the start.
C24_Witness ==
    /\ current_sim_time = sim_start + 2 * SIM_TIME_STEP
    /\ ev.kind = "listen"
    /\ sim_pc = "publish_metrics"

\* C25: processing an inbound message, valid or malformed, leaves T_int, T_m,
\* total_cost, current_sim_time and running unchanged; T_int and T_m change
\* only in the step of the stepping loop that runs the physics.
C25_ListenerOnlyWritesValve ==
    /\ [][ Len(inbox') < Len(inbox)
           => UNCHANGED <<T_int, T_m, total_cost, current_sim_time, running>> ]_vars
    /\ [][ <<T_int, T_m>>' # <<T_int, T_m>>
           => /\ sim_pc \in {"start", "sleep", "publish_metrics"}
              /\ sim_pc' = "publish_clock"
              /\ Len(inbox') = Len(inbox) ]_vars

\* The listener has just processed a message, and has applied a command since
\* the last tick, on a running simulator that has heated at a cost.
C25_Witness ==
    /\ ev.kind = "listen"
    /\ ev.has_cmd
    /\ valve_pos = ev.cmd
    /\ inbox = <<>>
    /\ T_int # T_m
    /\ total_cost > 0
    /\ running

----------------------------------------------------------------------------
(* Simulator.run: the onboard thermostat *)

\* C26: the onboard thermostat override changes valve_pos only when no
\* external controller is driving it: on a tick that follows a command
\* received since the previous tick, the value written by that command (a
\* valve position of 0 to 100 percent) stays in effect after the physics step.
C26_ThermostatYieldsToCommands ==
    [][ (/\ ev.has_cmd
         /\ ev.cmd \in 0..100
         /\ sim_pc \in {"sleep", "publish_metrics"}
         /\ sim_pc' = "publish_clock")
        => valve_pos' = valve_pos ]_vars

----------------------------------------------------------------------------
(* ScenarioLoader.get_price_at *)

\* The minutes of the day covered by the [start, end) hour intervals.
C27_PeakMinutes(intervals) ==
    UNION { { m \in 0..(24 * 60 - 1) :
                intervals[i][1] * 60 <= m /\ m < intervals[i][2] * 60 }
            : i \in 1..Len(intervals) }

\* C27: get_price_at returns the peak price with label HP iff start <= hour <
\* end for at least one of the peak_hours intervals, and otherwise the
\* off-peak price with label HC, whatever day_index is.
C27_PeakIffInsideInterval ==
    u_call.fn = "get_price_at" =>
        LET prices == Get(scenario, "prices", NoPrices)
            peak == u_call.hour \in
                      C27_PeakMinutes(Get(prices, "peak_hours", DefaultPeakHours))
        IN /\ u_out.exc = "none"
           /\ peak => /\ u_out.tariff = "HP"
                      /\ u_out.price = Get(prices, "hp", DefaultHP)
           /\ ~peak => /\ u_out.tariff = "HC"
                       /\ u_out.price = Get(prices, "hc", DefaultHC)

\* The lookup at 10:30 of day 5 with overlapping intervals, two of which
\* contain the hour: the peak price.
C27_Witness ==
    /\ u_call.fn = "get_price_at"
    /\ scenario = PeakHoursScenario
    /\ u_call.day_index = 5
    /\ u_call.hour = 10 * 60 + 30
    /\ u_out.tariff = "HP"
    /\ u_out.price = DefaultHP

----------------------------------------------------------------------------
(* MPCService.get_tempo_electricity_prices *)

\* The instant at which entry i (from 1) of the price vector is evaluated.
C28_InstantOf(i) ==
    (IF u_call.has_start THEN u_call.start_time ELSE current_time)
        + (i - 1) * SIM_TIME_STEP

\* The grade that the source reported for a day, or the fallback grade.
C28_Grade(answer) ==
    IF answer \in {"Bleu", "Blanc", "Rouge"} THEN answer ELSE "Inconnu"

\* C28: get_tempo_electricity_prices returns exactly horizon entries without
\* raising; entry i is evaluated at start_time + i*dt (i from 0), uses today's
\* grade while that instant has the date of start_time and tomorrow's grade
\* once it has crossed midnight, applies the peak price iff 6 <= hour < 22,
\* and uses the fallback prices (0.25 peak, 0.15 off-peak) for a day whose
\* grade the source did not give: the source was unreachable, or the request
\* for today failed and tomorrow's was not made.
C28_TempoPriceVector ==
    u_call.fn = "get_tempo_electricity_prices" =>
        /\ u_out.exc = "none"
        /\ Len(u_out.prices) = horizon
        /\ \A i \in 1..horizon :
             LET t == C28_InstantOf(i)
                 same_date == t \div DaySeconds = C28_InstantOf(1) \div DaySeconds
                 hour == (t % DaySeconds) \div HourSeconds
                 peak == 6 <= hour /\ hour < 22
                 grade == IF same_date THEN C28_Grade(u_call.today)
                          ELSE IF u_call.today = "exception" THEN "Inconnu"
                          ELSE C28_Grade(u_call.tomorrow)
             IN /\ u_out.prices[i] = IF peak THEN TARIFS[grade].HP
                                     ELSE TARIFS[grade].HC
                /\ grade = "Inconnu"
                   => u_out.prices[i] = IF peak THEN 2500 ELSE 1500

\* A call at 21:00 on a "Rouge" day followed by a "Bleu" day: one peak entry
\* of today, the off-peak entries around midnight, then tomorrow's peak price.
C28_Witness ==
    /\ u_call.fn = "get_tempo_electricity_prices"
    /\ u_call.has_start
    /\ u_call.start_time = 21 * HourSeconds
    /\ u_call.today = "Rouge"
    /\ u_call.tomorrow = "Bleu"
    /\ u_out.prices[1] = 7562
    /\ u_out.prices[2] = 1568
    /\ u_out.prices[4] = 1296
    /\ u_out.prices[10] = 1609
    /\ u_out.prices[24] = 1609

----------------------------------------------------------------------------
(* Simulator.publish_state: the telemetry of a tick *)

\* The topics of the messages that the current tick has published, in order.
C29_Topics == [i \in 1..Len(published) |-> published[i].topic]

\* C29 as stated: every tick that has performed a physics step and is over,
\* by reaching its pacing sleep or by a cancellation, has published exactly
\* one clock-sync message followed by exactly one metrics record, the record
\* after the tick's cost accumulation; a tick that performs no physics step
\* publishes nothing.
C29_EveryPhysicsTickPublishesBoth ==
    /\ sim_pc \in {"sleep", "cancelled"} =>
          /\ C29_Topics = <<"clock", "metrics">>
          /\ published[2].heating_cost_cumulative = total_cost
    /\ sim_pc \in {"done", "crashed"} => published = <<>>

\* C29, amended: every tick that performs a physics step publishes one
\* clock-sync message once the physics step and the cost accumulation are
\* done, and a tick that gets as far as its second publish or its pacing sleep
\* has published exactly that message followed by exactly one metrics record;
\* a tick that is cancelled during publish_state has published the clock-sync
\* message, followed by at most one metrics record; a tick that performs no
\* physics step publishes nothing.
C29_CompletedTickPublishesBoth ==
    /\ sim_pc = "publish_clock" =>
          /\ C29_Topics = <<"clock">>
          /\ published[1].sim_time = current_sim_time
    /\ sim_pc \in {"publish_metrics", "sleep"} =>
          /\ C29_Topics = <<"clock", "metrics">>
          /\ published[1].sim_time = current_sim_time
          /\ published[2].sim_time = current_sim_time
          /\ published[2].heating_cost_cumulative = total_cost
    /\ sim_pc = "cancelled" =>
          C29_Topics \in { <<"clock">>, <<"clock", "metrics">> }
    /\ sim_pc \in {"start", "done", "crashed"} => published = <<>>

\* The second tick of a run has heated at a cost and has reached its pacing
\* sleep, with its two messages published.
C29_Witness ==
    /\ sim_pc = "sleep"
    /\ current_sim_time = sim_start + 2 * SIM_TIME_STEP
    /\ ev.kind = "tick"
    /\ ev.cost_step > 0
    /\ Len(published) = 2
    /\ published[2].heating_cost_step = ev.cost_step

\* C30: in every metrics record published by the Simulator, power_consumption
\* equals valve_position/100 * P_max for the valve_position of the same
\* record, and heating_cost_step is the cost of that power over one step at
\* the record's electricity_price.
C30_TelemetrySelfConsistent ==
    \A i \in 1..Len(published) :
        published[i].topic = "metrics" =>
            /\ published[i].power_consumption
                 = (published[i].valve_position * SIM_HEATER_MAX_POWER) \div 100
            /\ published[i].heating_cost_step
                 = SimCostStep(published[i].power_consumption, SIM_TIME_STEP,
                               published[i].electricity_price)


----------------------------------------------------------------------------
(* C31 *)

\* The instant a clock text names, written out for each text of ClockTexts;
\* -1 for a text that is no ISO timestamp.
C31_InstantOf(text) ==
    CASE text = IsoText(0, 5, 0, 0) -> 18000
      [] text = IsoText(0, 13, 0, 0) -> 46800
      [] text = IsoText(0, 23, 0, 0) -> 82800
      [] text = IsoText(1, 5, 30, 15) -> 106215
      [] OTHER -> 0 - 1

\* C31: update_time with a text that is no parseable ISO timestamp leaves
\* current_time unchanged and raises nothing; with a parseable timestamp it
\* sets current_time to exactly that instant, earlier instants included; in
\* both cases is_auto_mode keeps its value.
C31_ClockResync ==
    (program = "unit" /\ u_call.fn = "update_time") =>
        /\ u_out.exc = "none"
        /\ u_out.self.current_time =
             IF C31_InstantOf(u_call.text) >= 0
             THEN C31_InstantOf(u_call.text)
             ELSE u_call.start_time
        /\ u_out.self.is_auto_mode = u_call.auto

\* update_time was called in manual mode with a parseable timestamp earlier
\* than the clock and moved the clock back to it.
C31_Witness ==
    /\ program = "unit"
    /\ u_call.fn = "update_time"
    /\ ~u_call.auto
    /\ C31_InstantOf(u_call.text) >= 0
    /\ C31_InstantOf(u_call.text) < u_call.start_time
    /\ u_out.self.current_time < u_call.start_time

----------------------------------------------------------------------------
(* C32 *)

\* The payload is JSON text.
C32_IsJson(m) == m.payload.utf8 /\ m.payload.json # "none"

\* calls is exactly one call of the callback cb.
C32_ExactlyOne(calls, cb) == Len(calls) = 1 /\ calls[1].callback = cb

\* C32: for the message the receive loop has just taken: on the clock topic
\* home/sys/clock it awaited on_clock_sync exactly once, with the payload; a
\* JSON message on a topic with a "sensors" level, on_sensor_data exactly
\* once; a JSON message on a valve "set" topic, on_valve_set exactly once; and
\* after a payload that is not JSON on another topic than the clock topic no
\* callback was awaited and the loop is still receiving.
C32_DispatchPerTopic ==
    (program = "mqtt" /\ mq_msg # NoMessage) =>
        /\ mq_msg.topic = MQTT_TOPIC_CLOCK =>
             /\ C32_ExactlyOne(mq_calls, "on_clock_sync")
             /\ mq_calls[1].payload = mq_msg.payload
        /\ (C32_IsJson(mq_msg) /\ InParts("sensors", mq_msg.topic)) =>
             C32_ExactlyOne(mq_calls, "on_sensor_data")
        /\ (/\ C32_IsJson(mq_msg)
            /\ InParts("valve", mq_msg.topic)
            /\ InParts("set", mq_msg.topic)) =>
             C32_ExactlyOne(mq_calls, "on_valve_set")
        /\ (~C32_IsJson(mq_msg) /\ mq_msg.topic # MQTT_TOPIC_CLOCK) =>
             /\ mq_calls = <<>>
             /\ mq_pc = "receive"


----------------------------------------------------------------------------
(* C33 *)

\* C33: every connection loss or unexpected exception sends start to its
\* sleep, never to its end; a new connection attempt begins only out of that
\* sleep, after reconnect_interval seconds; on a live event loop the sleep is
\* followed by a new attempt and the attempt is carried out (unless the task
\* is cancelled first), whatever the number of losses before; and start ends
\* only by a cancellation of its task, after which it makes no further step.
C33_ReconnectsUntilCancelled ==
    /\ [][mq_losses' > mq_losses => mq_pc' = "sleep"]_vars
    /\ [][(mq_pc' = "connect" /\ mq_pc # "connect") =>
             (mq_pc = "sleep" /\ mq_waited' = reconnect_interval)]_vars
    /\ [][(mq_pc' = "stopped" /\ mq_pc # "stopped") =>
             (~mq_cancelled /\ mq_cancelled')]_vars
    /\ [][mq_pc = "stopped" => UNCHANGED mqtt_vars]_vars
    /\ (program = "mqtt" /\ mq_pc = "sleep") ~> (mq_pc = "connect" \/ mq_cancelled)
    /\ (program = "mqtt" /\ mq_pc = "connect") ~>
           (mq_pc \in {"subscribe", "sleep"} \/ mq_cancelled)

\* After two losses and the sleep that followed the second, the service is
\* connected and subscribed again, and was never cancelled.
C33_Witness ==
    /\ program = "mqtt"
    /\ mq_losses >= 2
    /\ mq_pc = "receive"
    /\ mq_waited = reconnect_interval
    /\ ~mq_cancelled


----------------------------------------------------------------------------
(* C34 *)

\* The explicit Euler step T_in + (UA * (T_ext - T_in) + Power) * dt / C with
\* UA = area / R, on temperatures in 1e-4 degree: the heat flow in milliwatt,
\* times dt / C.
C34_EulerStep(T_in, T_ext, Power, dt) ==
    LET flow == (AREA * 100 * (T_ext - T_in)) \div (SIM_ROOM_R * 10) + Power * 1000
    IN T_in + (flow * (dt \div 100)) \div (SIM_ROOM_C \div 1000)

\* The two values differ by no more than the rounding of the integer
\* arithmetic (0.005 degree).
C34_Close(a, b) == a - b \in (0 - 50)..50

\* C34: predict_next_temperature(T_in, T_ext, Power, dt) returns the explicit
\* Euler step T_in + (UA * (T_ext - T_in) + Power) * dt / C with UA = area / R.
C34_PredictIsEulerStep ==
    (program = "unit" /\ u_call.fn = "predict_next_temperature") =>
        C34_Close(u_out.temperature,
                  C34_EulerStep(u_call.temp, u_call.t_ext, u_call.power, u_call.dt))

=========================================================================
